---- MODULE Spec2Model ----
(***************************************************************************)
(* Browser Audio Switcher (src/browser_audio_switcher.py).                 *)
(*                                                                         *)
(* Three browsers are launched; Switcher.activate(n) focuses browser n's   *)
(* window, lists the playback streams (pactl list sink-inputs), sets their *)
(* volumes, lists the capture streams (pactl list source-outputs) and sets *)
(* their mute flags.  The model keeps the browser registry, the window     *)
(* manager's windows, the audio server's streams and the commands the last *)
(* handler issued.  Strings are Python strings; None is the string NONE.   *)
(***************************************************************************)
EXTENDS Integers, Sequences, FiniteSets, TLC

VARIABLES
    launched,         \* number of Browser.launch() calls Switcher.__init__ has made
    browser_windows,  \* the global list browser_windows, indexed 1..3
    window_id,        \* Browser.window_id of browsers[i-1]
    pid,              \* Browser.pid of browsers[i-1]
    wm,               \* the window manager: state of each browser's window
    sinkInputs,       \* the audio server's playback streams, in pactl's order
    sourceOutputs,    \* the audio server's capture streams, in pactl's order
    num,              \* argument of the activate call that ran last (NONE: no call observed)
    ret,              \* what that call returned: "True", "False" or "raised"
    focused,          \* what Browser.focus returned in that call
    calls,            \* the external commands that call issued, in order
    heard,            \* the playback streams that call listed
    heard_mic,        \* the capture streams that call listed
    attr,             \* the per-browser lists that call built
    idle,             \* the callbacks GLib.idle_add queued and the main loop has not run yet
    running,          \* the callbacks being executed, each with the commands it has yet to issue
    log,              \* the external commands issued so far, each with the request it serves
    clicked,          \* number of clicks on the browser buttons so far
    ticks,            \* number of expirations of the refresh timer so far
    output,           \* a dump printed by pactl, line by line
    parsed            \* the parser that ran on output (NONE: none yet) and what it returned

\* the GTK main loop
loopvars == <<idle, running, log, clicked, ticks>>

\* the dump under parse
parsevars == <<output, parsed>>

vars == <<launched, browser_windows, window_id, pid, wm, sinkInputs, sourceOutputs,
          num, ret, focused, calls, heard, heard_mic, attr, loopvars, parsevars>>

-----------------------------------------------------------------------------
(* Bounds of the model. *)

\* streams the environment starts on the audio server, per direction
MaxSinkInputs == 1
MaxSourceOutputs == 1
\* streams of the inventories the attribution is checked on, per direction
AttrSinkInputs == 2
AttrSourceOutputs == 2
\* browsers whose window is not in the nominal state (found at launch, still open)
MaxTroubled == 1
\* header blocks of the dumps the parsers are checked on
MaxBlocks == 2
\* volume and mute commands that fail in one activation
MaxFailed == 1
\* clicks on the browser buttons, and expirations of the refresh timer
MaxClicks == 2
MaxTicks == 1

(* Program constants. *)
ACTIVE_VOL == 100
INACTIVE_VOL == 30
NumBrowsers == 3

NONE == "<None>"
UNBOUND == "<unbound>"      \* a local variable that was never assigned

Idx == 1..NumBrowsers

BROWSERS == <<"/usr/bin/vivaldi-stable", "/usr/bin/google-chrome", "/usr/bin/brave-browser">>

-----
(* The streams the environment can create. *)

Profile(name, binary, p) == [name |-> name, binary |-> binary, pid |-> p]

\* playback: the three brands, the shared engine name with and without the pid
\* of a browser's process, another application, and streams named by binary only
SinkProfiles ==
    { Profile("Vivaldi", NONE, NONE), Profile("Google Chrome", NONE, NONE),
      Profile("Brave", NONE, NONE),
      Profile("Chromium", NONE, NONE), Profile("Chromium", NONE, "100"),
      Profile("Chromium", NONE, "200"), Profile("Chromium", NONE, "300"),
      Profile("Firefox", "firefox", NONE), Profile("Firefox", NONE, "100"),
      Profile(NONE, "/opt/brave.com/brave/brave", NONE),
      Profile("Chromium", "/opt/vivaldi/vivaldi-bin", "100") }

SourceProfiles ==
    { Profile("Vivaldi", NONE, NONE), Profile("Google Chrome", NONE, NONE),
      Profile("Brave", NONE, NONE),
      Profile("Chromium", NONE, NONE), Profile("Chromium", NONE, "100"),
      Profile("Chromium", NONE, "200"), Profile("Chromium", NONE, "300"),
      Profile("Chromium input", NONE, NONE), Profile("Chromium input", NONE, "200"),
      Profile("Firefox", NONE, NONE), Profile("Firefox", NONE, "300") }


\* the id of browser i's window and the pid of the process launch spawns for it
WinId(i) == "0x0" \o ToString(i) \o "00001"
ProcPid(i) == ToString(i) \o "00"

PageTitle == <<"YouTube - Vivaldi", "YouTube - Google Chrome", "YouTube - Brave">>

Title(i) == "Browser " \o ToString(i)

CustomTitle(i) == "Browser" \o ToString(i) \o "_1700000000"

-----------------------------------------------------------------------------
(* Python string operations, computed on the characters.  Each is computed  *)
(* once for every string the program can meet and then looked up.           *)

AllProfiles == SinkProfiles \cup SourceProfiles

\* the text after the last "/" of s (all of s when it has none)
RECURSIVE BasenameOf(_)
BasenameOf(s) ==
    IF \E i \in 1..Len(s) : SubSeq(s, i, i) = "/"
    THEN LET i == CHOOSE j \in 1..Len(s) : SubSeq(s, j, j) = "/"
                       /\ \A k \in 1..(j - 1) : SubSeq(s, k, k) # "/"
         IN BasenameOf(SubSeq(s, i + 1, Len(s)))
    ELSE s

Paths == {pr.binary : pr \in AllProfiles} \cup {BROWSERS[i] : i \in Idx}

BasenameTable == [s \in Paths |-> BasenameOf(s)]

\* os.path.basename(s), and the group ([^/]+) of PAT_APP_PROCESS
basename(s) == BasenameTable[s]

\* s.split('.')[0]
BeforeDot(s) ==
    IF \E i \in 1..Len(s) : SubSeq(s, i, i) = "."
    THEN LET i == CHOOSE j \in 1..Len(s) : SubSeq(s, j, j) = "."
                       /\ \A k \in 1..(j - 1) : SubSeq(s, k, k) # "."
         IN SubSeq(s, 1, i - 1)
    ELSE s

get_browser_executable_name(browser_path) == BeforeDot(basename(browser_path))

LowerChar(c) ==
    CASE c = "B" -> "b" [] c = "C" -> "c" [] c = "F" -> "f" [] c = "G" -> "g"
      [] c = "I" -> "i" [] c = "S" -> "s" [] c = "T" -> "t" [] c = "V" -> "v"
      [] c = "Y" -> "y" [] OTHER -> c

RECURSIVE LowerOf(_)
LowerOf(s) == IF Len(s) = 0 THEN ""
              ELSE LowerChar(SubSeq(s, 1, 1)) \o LowerOf(SubSeq(s, 2, Len(s)))

WindowLines ==
    {WinId(j) \o "  0 host " \o t :
        j \in Idx, t \in {PageTitle[k] : k \in Idx} \cup {Title(k) : k \in Idx}}

\* the strings lower() is applied to
Mixed == {""} \cup {pr.name : pr \in AllProfiles} \cup {BasenameTable[s] : s \in Paths}
         \cup {get_browser_executable_name(BROWSERS[i]) : i \in Idx}
         \cup {CustomTitle(i) : i \in Idx} \cup {"Brave"} \cup WindowLines

LowerTable == [s \in Mixed \cup {LowerOf(m) : m \in Mixed} |-> LowerOf(s)]

\* s.lower()
lower(s) == LowerTable[s]

Line(key, val) == [key |-> key, val |-> val]

\* the text of a line of the dump
Text(l) == IF l.key \in {"Sink Input #", "Source Output #"}
           THEN l.key \o l.val
           ELSE l.key \o " = \"" \o l.val \o "\""

DumpLines ==
    {Text(Line(h, ToString(k))) : h \in {"Sink Input #", "Source Output #"}, k \in 1..50}
    \cup {Text(Line("application.name", pr.name)) : pr \in AllProfiles}
    \cup {Text(Line("application.process.binary", pr.binary)) : pr \in AllProfiles}
    \cup {Text(Line("application.process.id", pr.pid)) : pr \in AllProfiles}
    \cup {Text(Line("media.name", "Playback"))}

Substrings(s) == {""} \cup {SubSeq(s, i, j) : i \in 1..Len(s), j \in 1..Len(s)}

\* the strings "t in s" is asked of
Haystacks == {LowerTable[m] : m \in Mixed} \cup DumpLines
             \cup {pr.name : pr \in AllProfiles} \cup Paths \cup {"Playback"}

SubstringTable == [s \in Haystacks |-> Substrings(s)]

\* t in s
In(t, s) == t \in SubstringTable[s]

IsDigits(s) == Len(s) > 0 /\ \A i \in 1..Len(s) :
                   SubSeq(s, i, i) \in {"0", "1", "2", "3", "4", "5", "6", "7", "8", "9"}

\* dict.get(key, '')
Get(d, key) == IF key \in DOMAIN d THEN d[key] ELSE ""

\* Python truthiness of a str-or-None value
Truthy(v) == v # NONE /\ v # ""

-----------------------------------------------------------------------------
(* The audio server.  A stream is a record [id, name, binary, pid, level]:  *)
(* its index, its application.name, application.process.binary and          *)
(* application.process.id properties (NONE: the property is not set) and    *)
(* the volume or mute flag pactl set last ("default": never set).           *)

PropLines(st) ==
    (IF st.name = NONE THEN <<>> ELSE <<Line("application.name", st.name)>>)
    \o (IF st.pid = NONE THEN <<>> ELSE <<Line("application.process.id", st.pid)>>)
    \o (IF st.binary = NONE THEN <<>>
        ELSE <<Line("application.process.binary", st.binary)>>)

RECURSIVE Dump(_, _)
\* what "pactl list sink-inputs" / "pactl list source-outputs" prints
Dump(header, sts) ==
    IF sts = <<>> THEN <<>>
    ELSE <<Line(header, Head(sts).id), Line("media.name", "Playback")>>
         \o PropLines(Head(sts)) \o Dump(header, Tail(sts))

\* PAT_APP_NAME, PAT_APP_PROCESS, PAT_MEDIA_NAME, PAT_APP_PID: the group the
\* pattern captures from a line  key = "val", NONE when it does not match
PAT_APP_NAME(l) ==
    IF l.key = "application.name" /\ Len(l.val) > 0 /\ ~In("\"", l.val)
    THEN l.val ELSE NONE
PAT_APP_PROCESS(l) ==
    IF l.key = "application.process.binary" /\ In("/", l.val)
       /\ Len(basename(l.val)) > 0 /\ ~In("\"", l.val)
    THEN basename(l.val) ELSE NONE
PAT_MEDIA_NAME(l) ==
    IF l.key = "media.name" /\ Len(l.val) > 0 /\ ~In("\"", l.val)
    THEN l.val ELSE NONE
PAT_APP_PID(l) ==
    IF l.key = "application.process.id" /\ IsDigits(l.val) THEN l.val ELSE NONE

\* d[key] = v
Put(d, key, v) == [k \in DOMAIN d \cup {key} |-> IF k = key THEN v ELSE d[k]]

\* "if current_stream and 'id' in current_stream: streams.append(current_stream)"
Flush(streams, current) ==
    IF "id" \in DOMAIN current THEN Append(streams, current) ELSE streams

EmptyDict == [k \in {} |-> ""]

\* fault: ParseSinkInputs keeping the fields of the block before at a header
RECURSIVE ParseSinkInputs_leaky(_, _, _)
ParseSinkInputs_leaky(lines, streams, current) ==
    IF lines = <<>> THEN Flush(streams, current)
    ELSE LET l == Head(lines)
             line == Text(l)
             rest == Tail(lines)
         IN  IF SubSeq(line, 1, Len("Sink Input #")) = "Sink Input #"
             THEN ParseSinkInputs_leaky(rest, Flush(streams, current), Put(current, "id", l.val))
             ELSE IF In("application.name", line) /\ In("=", line)
             THEN ParseSinkInputs_leaky(rest, streams,
                      IF PAT_APP_NAME(l) # NONE
                      THEN Put(current, "app_name", PAT_APP_NAME(l)) ELSE current)
             ELSE IF In("application.process.binary", line)
             THEN ParseSinkInputs_leaky(rest, streams,
                      IF PAT_APP_PROCESS(l) # NONE
                      THEN Put(current, "binary", PAT_APP_PROCESS(l)) ELSE current)
             ELSE IF In("media.name", line)
             THEN ParseSinkInputs_leaky(rest, streams,
                      IF PAT_MEDIA_NAME(l) # NONE
                      THEN Put(current, "media_name", PAT_MEDIA_NAME(l)) ELSE current)
             ELSE IF In("application.process.id", line)
             THEN ParseSinkInputs_leaky(rest, streams,
                      IF PAT_APP_PID(l) # NONE
                      THEN Put(current, "pid", PAT_APP_PID(l)) ELSE current)
             ELSE ParseSinkInputs_leaky(rest, streams, current)

RECURSIVE ParseSinkInputs(_, _, _)
ParseSinkInputs(lines, streams, current) ==
    IF lines = <<>> THEN Flush(streams, current)
    ELSE LET l == Head(lines)
             line == Text(l)
             rest == Tail(lines)
         IN  IF SubSeq(line, 1, Len("Sink Input #")) = "Sink Input #"
             THEN ParseSinkInputs(rest, Flush(streams, current), [id |-> l.val])
             ELSE IF In("application.name", line) /\ In("=", line)
             THEN ParseSinkInputs(rest, streams,
                      IF PAT_APP_NAME(l) # NONE
                      THEN Put(current, "app_name", PAT_APP_NAME(l)) ELSE current)
             ELSE IF In("application.process.binary", line)
             THEN ParseSinkInputs(rest, streams,
                      IF PAT_APP_PROCESS(l) # NONE
                      THEN Put(current, "binary", PAT_APP_PROCESS(l)) ELSE current)
             ELSE IF In("media.name", line)
             THEN ParseSinkInputs(rest, streams,
                      IF PAT_MEDIA_NAME(l) # NONE
                      THEN Put(current, "media_name", PAT_MEDIA_NAME(l)) ELSE current)
             ELSE IF In("application.process.id", line)
             THEN ParseSinkInputs(rest, streams,
                      IF PAT_APP_PID(l) # NONE
                      THEN Put(current, "pid", PAT_APP_PID(l)) ELSE current)
             ELSE ParseSinkInputs(rest, streams, current)

\* list_audio_streams(), given the text pactl printed
list_audio_streams(txt) == ParseSinkInputs(txt, <<>>, EmptyDict)

RECURSIVE ParseSourceOutputs(_, _, _)
ParseSourceOutputs(lines, streams, current) ==
    IF lines = <<>> THEN Flush(streams, current)
    ELSE LET l == Head(lines)
             line == Text(l)
             rest == Tail(lines)
         IN  IF SubSeq(line, 1, Len("Source Output #")) = "Source Output #"
             THEN ParseSourceOutputs(rest, Flush(streams, current), [id |-> l.val])
             ELSE IF In("application.name", line) /\ In("=", line)
             THEN ParseSourceOutputs(rest, streams,
                      IF PAT_APP_NAME(l) # NONE
                      THEN Put(current, "app_name", PAT_APP_NAME(l)) ELSE current)
             ELSE IF In("application.process.binary", line)
             THEN ParseSourceOutputs(rest, streams,
                      IF PAT_APP_PROCESS(l) # NONE
                      THEN Put(current, "binary", PAT_APP_PROCESS(l)) ELSE current)
             ELSE IF In("application.process.id", line)
             THEN ParseSourceOutputs(rest, streams,
                      IF PAT_APP_PID(l) # NONE
                      THEN Put(current, "pid", PAT_APP_PID(l)) ELSE current)
             ELSE ParseSourceOutputs(rest, streams, current)

\* list_microphone_streams(), given the text pactl printed
list_microphone_streams(txt) ==
    IF txt = <<>> THEN <<>> ELSE ParseSourceOutputs(txt, <<>>, EmptyDict)


-----------------------------------------------------------------------------
(* The window manager.  wm[i] is the state of browser i's window: "none"    *)
(* (no window), "open", or "titled" (open and carrying the title launch     *)
(* gave it).  The window belongs to the process launch spawned.             *)

\* find_window_by_pid(pid): the first window of "wmctrl -lp" owned by pid
find_window_by_pid(w, p) ==
    IF \E i \in Idx : w[i] # "none" /\ ProcPid(i) = p
    THEN WinId(CHOOSE i \in Idx : w[i] # "none" /\ ProcPid(i) = p)
    ELSE NONE

\* find_window_by_class(class_hint): the first client whose WM_CLASS holds the hint
find_window_by_class(w, class_hint) ==
    IF \E i \in Idx : w[i] # "none"
                      /\ In(lower(class_hint), get_browser_executable_name(BROWSERS[i]))
    THEN WinId(CHOOSE i \in Idx : w[i] # "none"
                      /\ In(lower(class_hint), get_browser_executable_name(BROWSERS[i])))
    ELSE NONE

\* focus_window_by_id(window_id): wmctrl -i -a exits 0 when the window exists
focus_window_by_id(w, wid) ==
    Truthy(wid) /\ \E i \in Idx : w[i] # "none" /\ WinId(i) = wid

\* wmctrl -a title exits 0 when a window carries the title
focus_by_title(w, title) == \E i \in Idx : w[i] = "titled" /\ Title(i) = title

\* get_window_pid(window_id): _NET_WM_PID of the window, None when xprop finds none
get_window_pid(w, wid) ==
    IF \E i \in Idx : w[i] # "none" /\ WinId(i) = wid
    THEN ProcPid(CHOOSE i \in Idx : w[i] # "none" /\ WinId(i) = wid)
    ELSE NONE

-----------------------------------------------------------------------------
(* The commands sent to the audio server. *)

\* set_vol(idx, p): pactl set-sink-input-volume idx p%
set_vol(idx, p) == [cmd |-> "set-sink-input-volume", id |-> idx, arg |-> ToString(p) \o "%"]

\* fault: set_mute with the flag inverted
set_mute_inverted(idx, m) == [cmd |-> "set-source-output-mute", id |-> idx,
                              arg |-> IF m THEN "0" ELSE "1"]

\* set_mute(idx, m): pactl set-source-output-mute idx 1|0
set_mute(idx, m) == [cmd |-> "set-source-output-mute", id |-> idx,
                     arg |-> IF m THEN "1" ELSE "0"]

\* fault: the exception of a failing command leaving set_vol or set_mute, so that
\* the commands after it are not issued
Batch_abort(cs, failing) ==
    IF failing = {} THEN cs
    ELSE SubSeq(cs, 1, CHOOSE k \in failing : \A j \in failing : k <= j)

\* lines 70-86: the commands issued when those at the positions failing fail;
\* set_vol and set_mute catch what the command raises and return False, and no
\* caller reads what they return
Batch(cs, failing) == cs

\* the commands that took effect: a failed one changes nothing on the server
Effective(cs, failing) ==
    [k \in 1..Len(cs) |-> IF k \in failing THEN [cmd |-> "failed", id |-> "", arg |-> ""]
                          ELSE cs[k]]

browser_names == <<  <<"vivaldi", "vivaldimail">>,
                     <<"chrome", "google chrome", "chromium">>,
                     <<"brave", "brave-browser">>  >>

\* any(name in app_name or name in binary for name in name_list)
AnyName(name_list, app_name, binary) ==
    \E k \in 1..Len(name_list) : In(name_list[k], app_name) \/ In(name_list[k], binary)

\* x in list
Member(x, list) == \E k \in 1..Len(list) : list[k] = x


-----------------------------------------------------------------------------
(* adjust_stream_volumes(active_idx, streams).  The result is a record      *)
(* [calls, success, raised]: the set_vol calls made in order, the value of  *)
(* success, and whether the function raised (reading the local active_pid   *)
(* before any assignment to it raises UnboundLocalError).                   *)

\* the browser the first pass classifies a stream to (lines 272-320), NONE if
\* none; binary, app_name and stream_pid are the locals of lines 268-270
FirstPassIdx(active_idx, active_pid, vivaldi_streams, binary, app_name, stream_pid) ==
    IF AnyName(browser_names[1], app_name, binary) THEN "1"
    ELSE IF AnyName(browser_names[2], app_name, binary) THEN "2"
    ELSE IF AnyName(browser_names[3], app_name, binary) THEN "3"
    ELSE IF active_idx = 2 /\ (In("chromium", app_name) \/ In("chromium", binary))
    THEN "2"
    ELSE IF In("chromium", app_name) \/ In("chromium", binary)
    THEN IF stream_pid = active_pid THEN ToString(active_idx)
         ELSE IF active_idx = 1 /\ vivaldi_streams = <<>> THEN "1"
         ELSE NONE
    ELSE NONE

\* fault: FirstPassSet giving every classified stream the active volume
FirstPassSet_loud(active_idx, acc, sid, stream_browser_idx) ==
    IF stream_browser_idx = NONE THEN acc
    ELSE [vivaldi_streams |-> IF stream_browser_idx = "1"
                              THEN Append(acc.vivaldi_streams, sid)
                              ELSE acc.vivaldi_streams,
          chrome_streams |-> IF stream_browser_idx = "2"
                             THEN Append(acc.chrome_streams, sid)
                             ELSE acc.chrome_streams,
          brave_streams |-> IF stream_browser_idx = "3"
                            THEN Append(acc.brave_streams, sid)
                            ELSE acc.brave_streams,
          browser_stream_ids |-> Append(acc.browser_stream_ids, sid),
          calls |-> Append(acc.calls, set_vol(sid, ACTIVE_VOL)),
          success |-> TRUE]

\* lines 322-328: a classified stream is recorded and its volume is set
FirstPassSet(active_idx, acc, sid, stream_browser_idx) ==
    IF stream_browser_idx = NONE THEN acc
    ELSE [vivaldi_streams |-> IF stream_browser_idx = "1"
                              THEN Append(acc.vivaldi_streams, sid)
                              ELSE acc.vivaldi_streams,
          chrome_streams |-> IF stream_browser_idx = "2"
                             THEN Append(acc.chrome_streams, sid)
                             ELSE acc.chrome_streams,
          brave_streams |-> IF stream_browser_idx = "3"
                            THEN Append(acc.brave_streams, sid)
                            ELSE acc.brave_streams,
          browser_stream_ids |-> Append(acc.browser_stream_ids, sid),
          calls |-> Append(acc.calls,
                           set_vol(sid, IF stream_browser_idx = ToString(active_idx)
                                        THEN ACTIVE_VOL ELSE INACTIVE_VOL)),
          success |-> TRUE]

\* one iteration of the first pass (lines 263-328)
FirstPassStep(active_idx, active_pid, acc, stream) ==
    IF "id" \notin DOMAIN stream THEN acc
    ELSE FirstPassSet(active_idx, acc, stream.id,
             FirstPassIdx(active_idx, active_pid, acc.vivaldi_streams,
                          lower(Get(stream, "binary")), lower(Get(stream, "app_name")),
                          Get(stream, "pid")))

RECURSIVE FirstPass(_, _, _, _)
FirstPass(active_idx, active_pid, streams, acc) ==
    IF streams = <<>> THEN acc
    ELSE FirstPass(active_idx, active_pid, Tail(streams),
                   FirstPassStep(active_idx, active_pid, acc, Head(streams)))

FirstPassInit == [vivaldi_streams |-> <<>>, chrome_streams |-> <<>>,
                  brave_streams |-> <<>>, browser_stream_ids |-> <<>>,
                  calls |-> <<>>, success |-> FALSE]

RECURSIVE VivaldiUnassigned(_, _)
\* lines 340-344: every stream the first pass left out is set to the active volume
VivaldiUnassigned(streams, browser_stream_ids) ==
    IF streams = <<>> THEN <<>>
    ELSE (IF "id" \in DOMAIN Head(streams) /\ ~Member(Head(streams).id, browser_stream_ids)
          THEN <<set_vol(Head(streams).id, ACTIVE_VOL)>> ELSE <<>>)
         \o VivaldiUnassigned(Tail(streams), browser_stream_ids)

\* fault: WindowAttemptEnd giving the unassigned streams to Vivaldi even when
\* the first pass found a stream of Vivaldi
WindowAttemptEnd_always(active_idx, streams, active_pid, fp) ==
    LET more == IF active_idx = 1 /\ streams # <<>>
                THEN VivaldiUnassigned(streams, fp.browser_stream_ids) ELSE <<>>
    IN  [active_pid |-> active_pid, fp |-> fp, calls |-> fp.calls \o more,
         success |-> fp.success \/ more # <<>>]

\* lines 330-344: when Vivaldi is active and the first pass gave it no stream,
\* the streams the pass left out are given to it
WindowAttemptEnd(active_idx, streams, active_pid, fp) ==
    LET more == IF active_idx = 1 /\ fp.vivaldi_streams = <<>> /\ streams # <<>>
                THEN VivaldiUnassigned(streams, fp.browser_stream_ids) ELSE <<>>
    IN  [active_pid |-> active_pid, fp |-> fp, calls |-> fp.calls \o more,
         success |-> fp.success \/ more # <<>>]

\* lines 252-344: the attempt by window id, with the value active_pid gets
WindowAttempt(active_idx, streams, bw, w) ==
    IF active_idx <= Len(bw) /\ Truthy(bw[active_idx])
    THEN WindowAttemptEnd(active_idx, streams, get_window_pid(w, bw[active_idx]),
             FirstPass(active_idx, get_window_pid(w, bw[active_idx]), streams,
                       FirstPassInit))
    ELSE [active_pid |-> UNBOUND, fp |-> FirstPassInit, calls |-> <<>>, success |-> FALSE]

\* fault: AggressiveToken with the brands of browsers 2 and 3 exchanged
AggressiveToken_exchanged(active_idx) ==
    CASE active_idx = 1 -> "vivaldi" [] active_idx = 2 -> "brave" [] active_idx = 3 -> "chrome"

\* the brand the aggressive approach looks for (lines 359-389)
AggressiveToken(active_idx) ==
    CASE active_idx = 1 -> "vivaldi" [] active_idx = 2 -> "chrome" [] active_idx = 3 -> "brave"

RECURSIVE Aggressive(_, _)
\* lines 351-389
Aggressive(active_idx, streams) ==
    IF streams = <<>> THEN <<>>
    ELSE LET stream == Head(streams)
             app_name == lower(Get(stream, "app_name"))
             binary == lower(Get(stream, "binary"))
             tok == AggressiveToken(active_idx)
         IN  (IF "id" \notin DOMAIN stream \/ active_idx \notin Idx THEN <<>>
              ELSE IF In(tok, app_name) \/ In(tok, binary)
              THEN <<set_vol(stream.id, ACTIVE_VOL)>>
              ELSE <<set_vol(stream.id, INACTIVE_VOL)>>)
             \o Aggressive(active_idx, Tail(streams))

RECURSIVE DefiniteVivaldi(_)
\* lines 397-405
DefiniteVivaldi(streams) ==
    IF streams = <<>> THEN <<>>
    ELSE LET stream == Head(streams)
         IN  (IF "id" \in DOMAIN stream
                 /\ (In("vivaldi", lower(Get(stream, "app_name")))
                     \/ In("vivaldi", lower(Get(stream, "binary"))))
              THEN <<set_vol(stream.id, ACTIVE_VOL)>> ELSE <<>>)
             \o DefiniteVivaldi(Tail(streams))

RECURSIVE VivaldiByPid(_, _)
\* lines 409-413
VivaldiByPid(streams, active_pid) ==
    IF streams = <<>> THEN <<>>
    ELSE LET stream == Head(streams)
         IN  (IF "id" \in DOMAIN stream /\ "pid" \in DOMAIN stream
                 /\ stream.pid = active_pid
              THEN <<set_vol(stream.id, ACTIVE_VOL)>> ELSE <<>>)
             \o VivaldiByPid(Tail(streams), active_pid)

\* lines 419-420: the stream is named after the engine, or after "chrome"
\* without "google"
ChromiumLike(stream, app_name) ==
    "id" \in DOMAIN stream
    /\ (In("chromium", app_name) \/ (In("chrome", app_name) /\ ~In("google", app_name)))

RECURSIVE FirstChromium(_, _)
\* lines 417-428
FirstChromium(streams, chromium_found) ==
    IF streams = <<>> \/ chromium_found THEN <<>>
    ELSE IF ChromiumLike(Head(streams), lower(Get(Head(streams), "app_name")))
    THEN <<set_vol(Head(streams).id, ACTIVE_VOL)>> \o FirstChromium(Tail(streams), TRUE)
    ELSE FirstChromium(Tail(streams), FALSE)

\* lines 415-428: no stream has Vivaldi's pid either
LastResortByPid(streams, bypid) ==
    IF bypid # <<>> THEN [calls |-> bypid, raised |-> FALSE]
    ELSE [calls |-> FirstChromium(streams, FALSE), raised |-> FALSE]

\* fault: LastResortEnd going on to the pid and the first Chromium stream even
\* when a stream carrying Vivaldi's name was found
LastResortEnd_noskip(streams, active_pid, definite) ==
    IF active_pid = UNBOUND THEN [calls |-> definite, raised |-> TRUE]
    ELSE [calls |-> definite \o
                    LastResortByPid(streams,
                        IF Truthy(active_pid) THEN VivaldiByPid(streams, active_pid)
                        ELSE <<>>).calls,
          raised |-> FALSE]

\* lines 407-428: no stream carries Vivaldi's name; active_pid is read here
LastResortEnd(streams, active_pid, definite) ==
    IF definite # <<>> THEN [calls |-> definite, raised |-> FALSE]
    ELSE IF active_pid = UNBOUND THEN [calls |-> <<>>, raised |-> TRUE]
    ELSE LastResortByPid(streams,
             IF Truthy(active_pid) THEN VivaldiByPid(streams, active_pid) ELSE <<>>)

\* lines 392-428: the last resort for Vivaldi
LastResort(streams, active_pid) ==
    LastResortEnd(streams, active_pid, DefiniteVivaldi(streams))

RECURSIVE ChromiumDown_first(_, _, _)
\* fault: ChromiumDown leaving the loop after the first stream it lowers
ChromiumDown_first(streams, active_pid, acc) ==
    IF streams = <<>> \/ acc.raised THEN acc
    ELSE LET stream == Head(streams)
             app_name == lower(Get(stream, "app_name"))
         IN  IF "id" \in DOMAIN stream /\ In("chromium", app_name)
                /\ ~In("google chrome", app_name)
             THEN IF active_pid = UNBOUND
                  THEN [calls |-> acc.calls, raised |-> TRUE]
                  ELSE IF ~(Truthy(active_pid) /\ "pid" \in DOMAIN stream
                            /\ stream.pid = active_pid)
                  THEN [calls |-> Append(acc.calls, set_vol(stream.id, INACTIVE_VOL)),
                        raised |-> FALSE]
                  ELSE ChromiumDown_first(Tail(streams), active_pid, acc)
             ELSE ChromiumDown_first(Tail(streams), active_pid, acc)

RECURSIVE ChromiumDown(_, _, _)
\* lines 435-445; acc is [calls, raised]
ChromiumDown(streams, active_pid, acc) ==
    IF streams = <<>> \/ acc.raised THEN acc
    ELSE LET stream == Head(streams)
             app_name == lower(Get(stream, "app_name"))
         IN  IF "id" \in DOMAIN stream /\ In("chromium", app_name)
                /\ ~In("google chrome", app_name)
             THEN IF active_pid = UNBOUND
                  THEN [calls |-> acc.calls, raised |-> TRUE]
                  ELSE IF ~(Truthy(active_pid) /\ "pid" \in DOMAIN stream
                            /\ stream.pid = active_pid)
                  THEN ChromiumDown(Tail(streams), active_pid,
                           [calls |-> Append(acc.calls, set_vol(stream.id, INACTIVE_VOL)),
                            raised |-> FALSE])
                  ELSE ChromiumDown(Tail(streams), active_pid, acc)
             ELSE ChromiumDown(Tail(streams), active_pid, acc)

RECURSIVE GoogleChromeUp(_)
\* lines 448-453
GoogleChromeUp(streams) ==
    IF streams = <<>> THEN <<>>
    ELSE LET stream == Head(streams)
         IN  (IF "id" \in DOMAIN stream
                 /\ In("google chrome", lower(Get(stream, "app_name")))
              THEN <<set_vol(stream.id, ACTIVE_VOL)>> ELSE <<>>)
             \o GoogleChromeUp(Tail(streams))

\* lines 447-453: the streams of Google Chrome proper are raised again
Browser2SpecialEnd(streams, down) ==
    IF down.raised THEN down
    ELSE [calls |-> down.calls \o GoogleChromeUp(streams), raised |-> FALSE]

\* lines 431-453: the special case for Browser 2
Browser2Special(streams, active_pid) ==
    Browser2SpecialEnd(streams,
        ChromiumDown(streams, active_pid, [calls |-> <<>>, raised |-> FALSE]))

\* what the function did, stage by stage
Stages(first, aggr, last, special) ==
    [calls |-> first.calls \o aggr \o last.calls \o special.calls,
     success |-> first.success \/ aggr # <<>>,
     raised |-> last.raised \/ special.raised,
     fp |-> first.fp]

\* lines 346-453: the stages that follow the attempt by window id
AfterWindowAttempt(active_idx, streams, first) ==
    Stages(first,
           IF ~first.success /\ streams # <<>>
           THEN Aggressive(active_idx, streams) ELSE <<>>,
           IF active_idx = 1 /\ streams # <<>>
           THEN LastResort(streams, first.active_pid)
           ELSE [calls |-> <<>>, raised |-> FALSE],
           IF active_idx = 2 /\ streams # <<>>
           THEN Browser2Special(streams, first.active_pid)
           ELSE [calls |-> <<>>, raised |-> FALSE])

adjust_stream_volumes(active_idx, streams, bw, w) ==
    AfterWindowAttempt(active_idx, streams, WindowAttempt(active_idx, streams, bw, w))


-----------------------------------------------------------------------------
(* adjust_microphone_streams(active_idx, streams).  The result is a record  *)
(* [calls, success, browser_mic_streams, ...].                              *)

Digit(c) == CASE c = "0" -> 0 [] c = "1" -> 1 [] c = "2" -> 2 [] c = "3" -> 3
              [] c = "4" -> 4 [] c = "5" -> 5 [] c = "6" -> 6 [] c = "7" -> 7
              [] c = "8" -> 8 [] c = "9" -> 9

RECURSIVE int(_)
\* int(s) of a string of digits
int(s) == IF Len(s) = 0 THEN 0
          ELSE 10 * int(SubSeq(s, 1, Len(s) - 1)) + Digit(SubSeq(s, Len(s), Len(s)))

abs(x) == IF x < 0 THEN 0 - x ELSE x

\* fault: mic_browser_names without the special handling for Vivaldi
mic_browser_names_plain(active_idx) == browser_names

\* lines 523-536: the name lists, "chromium" moved to Vivaldi when it is active
mic_browser_names(active_idx) ==
    IF active_idx = 1
    THEN << Append(browser_names[1], "chromium"),
            SelectSeq(browser_names[2], LAMBDA name : name # "chromium"),
            browser_names[3] >>
    ELSE browser_names

\* lines 587-592: the first browser whose name list matches, NONE if none does
MicNameMatch(names, app_name, binary) ==
    IF \E idx \in Idx : AnyName(names[idx], app_name, binary)
    THEN ToString(CHOOSE idx \in Idx : AnyName(names[idx], app_name, binary)
                      /\ \A j \in 1..(idx - 1) : ~AnyName(names[j], app_name, binary))
    ELSE NONE

\* list.append on one of the per-browser lists
AppendTo(lists, idx, sid) == [lists EXCEPT ![idx] = Append(@, sid)]

\* list.append on one of the per-browser lists, when cond holds
AppendIf(cond, lists, idx, sid) == IF cond THEN AppendTo(lists, idx, sid) ELSE lists

\* fault: MicSet muting every stream that is not the active browser's
MicSet_mute_rest(active_idx, acc, sid, generic, likely_vivaldi, matched_idx, lists) ==
    [browser_mic_streams |-> lists,
     chromium_streams |-> IF generic THEN Append(acc.chromium_streams, sid)
                          ELSE acc.chromium_streams,
     vivaldi_chromium_streams |-> IF likely_vivaldi
                                  THEN Append(acc.vivaldi_chromium_streams, sid)
                                  ELSE acc.vivaldi_chromium_streams,
     matched |-> Append(acc.matched, <<sid, matched_idx>>),
     calls |-> IF matched_idx = ToString(active_idx)
               THEN Append(acc.calls, set_mute(sid, FALSE))
               ELSE Append(acc.calls, set_mute(sid, TRUE)),
     success |-> TRUE]

\* lines 611-623: the stream is unmuted, muted or left alone
MicSet(active_idx, acc, sid, generic, likely_vivaldi, matched_idx, lists) ==
    [browser_mic_streams |-> lists,
     chromium_streams |-> IF generic THEN Append(acc.chromium_streams, sid)
                          ELSE acc.chromium_streams,
     vivaldi_chromium_streams |-> IF likely_vivaldi
                                  THEN Append(acc.vivaldi_chromium_streams, sid)
                                  ELSE acc.vivaldi_chromium_streams,
     matched |-> Append(acc.matched, <<sid, matched_idx>>),
     calls |-> IF matched_idx = ToString(active_idx)
               THEN Append(acc.calls, set_mute(sid, FALSE))
               ELSE IF matched_idx \in {"1", "2", "3"}
               THEN Append(acc.calls, set_mute(sid, TRUE))
               ELSE acc.calls,
     success |-> acc.success \/ matched_idx \in {"1", "2", "3"}]

\* lines 587-609: the value of matched_idx and the lists the stream is appended
\* to: by name, then forced to Vivaldi, then by pid
MicMatch(active_idx, acc, sid, generic, likely_vivaldi, by_name, forced, pid_match) ==
    MicSet(active_idx, acc, sid, generic, likely_vivaldi,
           IF forced THEN "1"
           ELSE IF by_name # NONE THEN by_name
           ELSE IF pid_match THEN ToString(active_idx)
           ELSE NONE,
           AppendIf(~forced /\ by_name = NONE /\ pid_match,
               AppendIf(forced,
                   AppendIf(by_name # NONE, acc.browser_mic_streams, int(by_name), sid),
                   1, sid),
               active_idx, sid))

\* lines 572-609: the tests made on the stream's properties
MicTests(active_idx, active_pid, vivaldi_pid, chrome_pid, acc, sid, app_name, spid, by_name) ==
    MicMatch(active_idx, acc, sid,
             In("chromium", app_name) /\ by_name = NONE,
             /\ active_idx = 2 /\ In("chromium", app_name)
             /\ Truthy(vivaldi_pid) /\ Truthy(spid)
             /\ (~Truthy(chrome_pid)
                 \/ abs(int(spid) - int(vivaldi_pid)) < abs(int(spid) - int(chrome_pid))),
             by_name,
             active_idx = 2 /\ In("chromium input", lower(app_name)),
             Truthy(active_pid) /\ spid = active_pid)

\* one iteration of the loop of lines 567-623
MicStep(active_idx, active_pid, vivaldi_pid, chrome_pid, names, acc, stream) ==
    IF ~Truthy(Get(stream, "id")) THEN acc
    ELSE MicTests(active_idx, active_pid, vivaldi_pid, chrome_pid, acc, stream.id,
                  lower(Get(stream, "app_name")), Get(stream, "pid"),
                  MicNameMatch(names, lower(Get(stream, "app_name")),
                               lower(Get(stream, "binary"))))

RECURSIVE MicLoop(_, _, _, _, _, _, _)
MicLoop(active_idx, active_pid, vivaldi_pid, chrome_pid, names, streams, acc) ==
    IF streams = <<>> THEN acc
    ELSE MicLoop(active_idx, active_pid, vivaldi_pid, chrome_pid, names, Tail(streams),
                 MicStep(active_idx, active_pid, vivaldi_pid, chrome_pid, names, acc,
                         Head(streams)))

MicInit == [browser_mic_streams |-> << <<>>, <<>>, <<>> >>, chromium_streams |-> <<>>,
            vivaldi_chromium_streams |-> <<>>, matched |-> <<>>, calls |-> <<>>,
            success |-> FALSE]

\* lines 625-634: with Vivaldi active and no stream in its list, the first
\* unassigned Chromium stream is unmuted
VivaldiMic(active_idx, loop) ==
    LET extra == IF active_idx = 1 /\ loop.browser_mic_streams[1] = <<>>
                    /\ loop.chromium_streams # <<>>
                 THEN <<set_mute(loop.chromium_streams[1], FALSE)>> ELSE <<>>
    IN  [loop EXCEPT !.calls = @ \o extra, !.success = @ \/ extra # <<>>]

adjust_microphone_streams(active_idx, streams, bw, w) ==
    IF streams = <<>> THEN [MicInit EXCEPT !.success = FALSE]
    ELSE VivaldiMic(active_idx,
             MicLoop(active_idx,
                     IF active_idx <= Len(bw) /\ Truthy(bw[active_idx])
                     THEN get_window_pid(w, bw[active_idx]) ELSE NONE,
                     IF active_idx = 2 /\ Len(bw) >= 1 /\ Truthy(bw[1])
                     THEN get_window_pid(w, bw[1]) ELSE NONE,
                     IF active_idx = 2 /\ Len(bw) >= 2 /\ Truthy(bw[2])
                     THEN get_window_pid(w, bw[2]) ELSE NONE,
                     mic_browser_names(active_idx), streams, MicInit))


-----------------------------------------------------------------------------
(* Browser.focus and Browser.launch. *)

Cmd(cmd, id, arg) == [cmd |-> cmd, id |-> id, arg |-> arg]

exe_name(i) == get_browser_executable_name(BROWSERS[i])

\* self.exe_name.lower() in ["brave", "brave-browser"]
IsBrave(i) == lower(exe_name(i)) \in {"brave", "brave-browser"}

\* fault: Strategies with strategy 3 not updating the global record
Strategies_local(i, wid, bw, w, w3, w4) ==
    LET c0 == <<Cmd("wmctrl -lp", "", "")>>
        \* Strategy 1: the known window id
        c1 == IF Truthy(wid) THEN Append(c0, Cmd("wmctrl -i -a", wid, "")) ELSE c0
        \* Strategy 2: the window title
        c2 == Append(c1, Cmd("wmctrl -a", "", Title(i)))
        \* Strategy 3: the window of the launched process
        wid3 == IF Truthy(w3) THEN w3 ELSE wid
        bw3 == bw
        c3 == IF Truthy(w3) THEN Append(c2, Cmd("wmctrl -i -a", w3, "")) ELSE c2
        \* Strategy 4: Brave, by window class
        wid4 == IF Truthy(w4) THEN w4 ELSE wid3
        bw4 == IF Truthy(w4) THEN [bw3 EXCEPT ![i] = w4] ELSE bw3
        c4 == IF Truthy(w4) THEN Append(c3, Cmd("wmctrl -i -a", w4, "")) ELSE c3
    IN  IF Truthy(wid) /\ focus_window_by_id(w, wid)
        THEN [ret |-> TRUE, window_id |-> wid, browser_windows |-> bw, calls |-> c1]
        ELSE IF focus_by_title(w, Title(i))
        THEN [ret |-> TRUE, window_id |-> wid, browser_windows |-> bw, calls |-> c2]
        ELSE IF Truthy(w3) /\ focus_window_by_id(w, w3)
        THEN [ret |-> TRUE, window_id |-> wid3, browser_windows |-> bw3, calls |-> c3]
        ELSE IF Truthy(w4) /\ focus_window_by_id(w, w4)
        THEN [ret |-> TRUE, window_id |-> wid4, browser_windows |-> bw4, calls |-> c4]
        \* Strategy 5: xdotool on whatever window id is recorded
        ELSE IF Truthy(wid4)
        THEN [ret |-> TRUE, window_id |-> wid4, browser_windows |-> bw4,
              calls |-> Append(c4, Cmd("xdotool windowactivate", wid4, ""))]
        ELSE [ret |-> FALSE, window_id |-> wid4, browser_windows |-> bw4, calls |-> c4]

\* lines 748-793: the strategies in order; w3 and w4 are the windows strategies
\* 3 and 4 look up
Strategies(i, wid, bw, w, w3, w4) ==
    LET c0 == <<Cmd("wmctrl -lp", "", "")>>
        \* Strategy 1: the known window id
        c1 == IF Truthy(wid) THEN Append(c0, Cmd("wmctrl -i -a", wid, "")) ELSE c0
        \* Strategy 2: the window title
        c2 == Append(c1, Cmd("wmctrl -a", "", Title(i)))
        \* Strategy 3: the window of the launched process
        wid3 == IF Truthy(w3) THEN w3 ELSE wid
        bw3 == IF Truthy(w3) THEN [bw EXCEPT ![i] = w3] ELSE bw
        c3 == IF Truthy(w3) THEN Append(c2, Cmd("wmctrl -i -a", w3, "")) ELSE c2
        \* Strategy 4: Brave, by window class
        wid4 == IF Truthy(w4) THEN w4 ELSE wid3
        bw4 == IF Truthy(w4) THEN [bw3 EXCEPT ![i] = w4] ELSE bw3
        c4 == IF Truthy(w4) THEN Append(c3, Cmd("wmctrl -i -a", w4, "")) ELSE c3
    IN  IF Truthy(wid) /\ focus_window_by_id(w, wid)
        THEN [ret |-> TRUE, window_id |-> wid, browser_windows |-> bw, calls |-> c1]
        ELSE IF focus_by_title(w, Title(i))
        THEN [ret |-> TRUE, window_id |-> wid, browser_windows |-> bw, calls |-> c2]
        ELSE IF Truthy(w3) /\ focus_window_by_id(w, w3)
        THEN [ret |-> TRUE, window_id |-> wid3, browser_windows |-> bw3, calls |-> c3]
        ELSE IF Truthy(w4) /\ focus_window_by_id(w, w4)
        THEN [ret |-> TRUE, window_id |-> wid4, browser_windows |-> bw4, calls |-> c4]
        \* Strategy 5: xdotool on whatever window id is recorded
        ELSE IF Truthy(wid4)
        THEN [ret |-> TRUE, window_id |-> wid4, browser_windows |-> bw4,
              calls |-> Append(c4, Cmd("xdotool windowactivate", wid4, ""))]
        ELSE [ret |-> FALSE, window_id |-> wid4, browser_windows |-> bw4, calls |-> c4]

\* Browser.focus of browsers[i-1]: [ret, window_id, browser_windows, calls]
focus(i, wid, p, bw, w) ==
    Strategies(i, wid, bw, w,
               IF Truthy(p) THEN find_window_by_pid(w, p) ELSE NONE,
               IF IsBrave(i) THEN find_window_by_class(w, "Brave") ELSE NONE)

\* the line "wmctrl -l" prints for browser j's window
WindowLine(w, j) == WinId(j) \o "  0 host " \o
                    (IF w[j] = "titled" THEN Title(j) ELSE PageTitle[j])

\* find_window_by_title_part(title_part): the first window whose line holds the part
find_window_by_title_part(w, title_part) ==
    IF \E j \in Idx : w[j] # "none" /\ In(lower(title_part), lower(WindowLine(w, j)))
    THEN WinId(CHOOSE j \in Idx : w[j] # "none"
                   /\ In(lower(title_part), lower(WindowLine(w, j)))
                   /\ \A k \in 1..(j - 1) :
                          ~(w[k] # "none" /\ In(lower(title_part), lower(WindowLine(w, k)))))
    ELSE NONE

\* the first of the four lookups that finds a window
FirstFound(by_pid, by_custom, by_exe, by_class) ==
    IF Truthy(by_pid) THEN by_pid
    ELSE IF Truthy(by_custom) THEN by_custom
    ELSE IF Truthy(by_exe) THEN by_exe
    ELSE by_class

\* the window one polling attempt of Browser.launch finds (lines 698-733), or NONE
launch_find(i, w) ==
    FirstFound(find_window_by_pid(w, ProcPid(i)),
               find_window_by_title_part(w, CustomTitle(i)),
               find_window_by_title_part(w, lower(exe_name(i))),
               IF IsBrave(i) THEN find_window_by_class(w, "Brave") ELSE NONE)


-----------------------------------------------------------------------------
(* Switcher.activate(num). *)

RECURSIVE SetLevels(_, _, _)
\* the audio server after the set commands of one kind among calls
SetLevels(sts, cmd, cs) ==
    IF cs = <<>> THEN sts
    ELSE LET c == Head(cs)
         IN  SetLevels([k \in 1..Len(sts) |->
                           IF c.cmd = cmd /\ sts[k].id = c.id
                           THEN [sts[k] EXCEPT !.level = c.arg] ELSE sts[k]],
                       cmd, Tail(cs))

NoVol == [calls |-> <<>>, success |-> FALSE, raised |-> FALSE, fp |-> FirstPassInit]

\* fault: Outcome returning True only when both inventories held a stream
Outcome_both(n, wids, f, streams, vol, mic_streams, mic) ==
    [ret |-> IF vol.raised THEN "raised"
             ELSE IF streams # <<>> /\ mic_streams # <<>> THEN "True" ELSE "False",
     focused |-> IF f.ret THEN "True" ELSE "False",
     window_id |-> [wids EXCEPT ![n] = f.window_id],
     browser_windows |-> f.browser_windows,
     calls |-> f.calls \o <<Cmd("pactl list sink-inputs", "", "")>> \o vol.calls
               \o (IF streams # <<>> /\ ~vol.raised
                   THEN <<Cmd("pactl list source-outputs", "", "")>> ELSE <<>>)
               \o mic.calls,
     vol |-> vol, mic |-> mic, streams |-> streams, mic_streams |-> mic_streams]

\* lines 841-845: what activate(num) returned, issued and left in the registry
Outcome(n, wids, f, streams, vol, mic_streams, mic) ==
    [ret |-> IF vol.raised THEN "raised"
             ELSE IF streams # <<>> THEN "True" ELSE "False",
     focused |-> IF f.ret THEN "True" ELSE "False",
     window_id |-> [wids EXCEPT ![n] = f.window_id],
     browser_windows |-> f.browser_windows,
     calls |-> f.calls \o <<Cmd("pactl list sink-inputs", "", "")>> \o vol.calls
               \o (IF streams # <<>> /\ ~vol.raised
                   THEN <<Cmd("pactl list source-outputs", "", "")>> ELSE <<>>)
               \o mic.calls,
     vol |-> vol, mic |-> mic, streams |-> streams, mic_streams |-> mic_streams]

\* lines 836-839: the capture streams are attributed
AfterMicList(n, wids, w, f, streams, vol, mic_streams) ==
    Outcome(n, wids, f, streams, vol, mic_streams,
            IF mic_streams # <<>>
            THEN adjust_microphone_streams(n, mic_streams, f.browser_windows, w)
            ELSE MicInit)

\* fault: AfterVolumes listing the capture streams whatever the playback
\* inventory held
AfterVolumes_always(n, wids, w, sources, f, streams, vol) ==
    AfterMicList(n, wids, w, f, streams, vol,
                 IF ~vol.raised
                 THEN list_microphone_streams(Dump("Source Output #", sources))
                 ELSE <<>>)

\* lines 834-836: the capture streams are listed, unless the attribution of the
\* playback streams raised
AfterVolumes(n, wids, w, sources, f, streams, vol) ==
    AfterMicList(n, wids, w, f, streams, vol,
                 IF streams # <<>> /\ ~vol.raised
                 THEN list_microphone_streams(Dump("Source Output #", sources))
                 ELSE <<>>)

\* fault: AfterFocus attributing with the window ids known before focus ran
AfterFocus_stale(n, wids, w, sources, f, streams) ==
    AfterVolumes(n, wids, w, sources, f, streams,
                 IF streams # <<>>
                 THEN adjust_stream_volumes(n, streams, wids, w)
                 ELSE NoVol)

\* lines 829-832: the playback streams are attributed
AfterFocus(n, wids, w, sources, f, streams) ==
    AfterVolumes(n, wids, w, sources, f, streams,
                 IF streams # <<>>
                 THEN adjust_stream_volumes(n, streams, f.browser_windows, w)
                 ELSE NoVol)

\* fault: activate checking num only after it fetched the playback inventory
activate_fetch_first(n, wids, pids, bw, w, sinks, sources) ==
    IF ~(1 <= n /\ n <= 3)
    THEN [ret |-> "False", focused |-> NONE, window_id |-> wids,
          browser_windows |-> bw, calls |-> <<Cmd("pactl list sink-inputs", "", "")>>,
          vol |-> NoVol, mic |-> MicInit,
          streams |-> list_audio_streams(Dump("Sink Input #", sinks)),
          mic_streams |-> <<>>]
    ELSE AfterFocus(n, wids, w, sources, focus(n, wids[n], pids[n], bw, w),
                    list_audio_streams(Dump("Sink Input #", sinks)))

\* activate(num)
activate(n, wids, pids, bw, w, sinks, sources) ==
    IF ~(1 <= n /\ n <= 3)
    THEN [ret |-> "False", focused |-> NONE, window_id |-> wids,
          browser_windows |-> bw, calls |-> <<>>, vol |-> NoVol, mic |-> MicInit,
          streams |-> <<>>, mic_streams |-> <<>>]
    ELSE AfterFocus(n, wids, w, sources, focus(n, wids[n], pids[n], bw, w),
                    list_audio_streams(Dump("Sink Input #", sinks)))


-----------------------------------------------------------------------------
(* The environment: the streams applications open and close. *)

SinkId(k) == ToString(k + 4)
SourceId(k) == ToString(k + 40)

Stream(id, pr) == [id |-> id, name |-> pr.name, binary |-> pr.binary, pid |-> pr.pid,
                   level |-> "default"]

\* the streams sts and a new one in slot k, in the order of their indexes
InsertStream(sts, st) ==
    LET before == SelectSeq(sts, LAMBDA x : int(x.id) < int(st.id))
        after == SelectSeq(sts, LAMBDA x : int(x.id) > int(st.id))
    IN  before \o <<st>> \o after

Ids(sts) == {sts[k].id : k \in 1..Len(sts)}

RemoveAt(sts, k) == SubSeq(sts, 1, k - 1) \o SubSeq(sts, k + 1, Len(sts))

-----------------------------------------------------------------------------
(* The state machine. *)

NoAttr == [vivaldi_streams |-> <<>>, chrome_streams |-> <<>>, brave_streams |-> <<>>,
           browser_mic_streams |-> << <<>>, <<>>, <<>> >>, matched |-> <<>>]

\* the main loop has nothing queued and nothing running
LoopIdle == idle = <<>> /\ running = <<>> /\ log = <<>> /\ clicked = 0 /\ ticks = 0

\* no dump is under parse
NoText == output = <<>> /\ parsed = [by |-> NONE, streams |-> <<>>]

\* no handler has run since the environment last changed
Unobserved ==
    /\ num' = NONE /\ ret' = NONE /\ focused' = NONE /\ calls' = <<>>
    /\ heard' = <<>> /\ heard_mic' = <<>> /\ attr' = NoAttr

\* browser i's window is in the nominal state: found by launch and still open
Nominal(wids, w, i) == wids[i] = WinId(i) /\ w[i] = "titled"

Troubled(wids, w, upto) == {i \in 1..upto : ~Nominal(wids, w, i)}

Init ==
    /\ launched = 0
    /\ browser_windows = <<NONE, NONE, NONE>>
    /\ window_id = <<NONE, NONE, NONE>>
    /\ pid = <<NONE, NONE, NONE>>
    /\ wm = <<"none", "none", "none">>
    /\ sinkInputs = <<>>
    /\ sourceOutputs = <<>>
    /\ num = NONE /\ ret = NONE /\ focused = NONE /\ calls = <<>>
    /\ heard = <<>> /\ heard_mic = <<>> /\ attr = NoAttr
    /\ LoopIdle /\ NoText

\* fault: Launch keeping the window it found in the Browser object only
Launch_private ==
    /\ launched < NumBrowsers
    /\ \E exists \in BOOLEAN, appears \in BOOLEAN :
         \E w1 \in {IF exists /\ appears THEN [wm EXCEPT ![launched + 1] = "open"] ELSE wm} :
         \E found \in {IF exists THEN launch_find(launched + 1, w1) ELSE NONE} :
             /\ (exists /\ appears)
                \/ Cardinality(Troubled(window_id, wm, launched)) < MaxTroubled
             /\ launched' = launched + 1
             /\ pid' = IF exists THEN [pid EXCEPT ![launched + 1] = ProcPid(launched + 1)]
                       ELSE pid
             /\ window_id' = IF Truthy(found) THEN [window_id EXCEPT ![launched + 1] = found]
                             ELSE window_id
             /\ browser_windows' = browser_windows
             /\ wm' = IF Truthy(found)
                      THEN [j \in Idx |-> IF WinId(j) = found THEN "titled" ELSE w1[j]]
                      ELSE w1
    /\ UNCHANGED <<sinkInputs, sourceOutputs, num, ret, focused, calls, heard,
                   heard_mic, attr, loopvars, parsevars>>

\* Switcher.__init__ launches the next browser: Browser.launch (lines 657-741).
\* exists: os.path.exists(self.exe); appears: the window shows up within the 20 polls.
Launch ==
    /\ launched < NumBrowsers
    /\ \E exists \in BOOLEAN, appears \in BOOLEAN :
         \E w1 \in {IF exists /\ appears THEN [wm EXCEPT ![launched + 1] = "open"] ELSE wm} :
         \E found \in {IF exists THEN launch_find(launched + 1, w1) ELSE NONE} :
             /\ (exists /\ appears)
                \/ Cardinality(Troubled(window_id, wm, launched)) < MaxTroubled
             /\ launched' = launched + 1
             /\ pid' = IF exists THEN [pid EXCEPT ![launched + 1] = ProcPid(launched + 1)]
                       ELSE pid
             /\ window_id' = IF Truthy(found) THEN [window_id EXCEPT ![launched + 1] = found]
                             ELSE window_id
             /\ browser_windows' = IF Truthy(found)
                                   THEN [browser_windows EXCEPT ![launched + 1] = found]
                                   ELSE browser_windows
             \* wmctrl -i -r window_id -N title
             /\ wm' = IF Truthy(found)
                      THEN [j \in Idx |-> IF WinId(j) = found THEN "titled" ELSE w1[j]]
                      ELSE w1
    /\ UNCHANGED <<sinkInputs, sourceOutputs, num, ret, focused, calls, heard,
                   heard_mic, attr, loopvars, parsevars>>

\* the arguments activate is called with; 0 and 4 are not browser numbers
ActivateArgs == 0..(NumBrowsers + 1)

\* Switcher.activate(n), run to completion by the GTK main loop
Activate(n) ==
    /\ launched = NumBrowsers
    /\ \E r \in {activate(n, window_id, pid, browser_windows, wm, sinkInputs, sourceOutputs)} :
           /\ num' = ToString(n)
           /\ ret' = r.ret
           /\ focused' = r.focused
           /\ calls' = r.calls
           /\ heard' = r.streams
           /\ heard_mic' = r.mic_streams
           /\ attr' = [vivaldi_streams |-> r.vol.fp.vivaldi_streams,
                       chrome_streams |-> r.vol.fp.chrome_streams,
                       brave_streams |-> r.vol.fp.brave_streams,
                       browser_mic_streams |-> r.mic.browser_mic_streams,
                       matched |-> r.mic.matched]
           /\ window_id' = r.window_id
           /\ browser_windows' = r.browser_windows
           /\ sinkInputs' = SetLevels(sinkInputs, "set-sink-input-volume", r.calls)
           /\ sourceOutputs' = SetLevels(sourceOutputs, "set-source-output-mute", r.calls)
    /\ UNCHANGED <<launched, pid, wm, loopvars, parsevars>>

\* the positions of the volume and mute commands among cs
SetPositions(cs) ==
    {k \in 1..Len(cs) : cs[k].cmd \in {"set-sink-input-volume", "set-source-output-mute"}}

\* Switcher.activate(n) when some of its volume and mute commands fail: pactl
\* exits with an error or cannot be run
ActivateFailing(n) ==
    /\ launched = NumBrowsers
    /\ \E r \in {activate(n, window_id, pid, browser_windows, wm, sinkInputs, sourceOutputs)} :
       \E failing \in SUBSET SetPositions(r.calls) :
       \E issued \in {Batch(r.calls, failing)} :
           /\ failing # {} /\ Cardinality(failing) <= MaxFailed
           /\ num' = ToString(n)
           /\ ret' = r.ret
           /\ focused' = r.focused
           /\ calls' = issued
           /\ heard' = r.streams
           /\ heard_mic' = r.mic_streams
           /\ attr' = [vivaldi_streams |-> r.vol.fp.vivaldi_streams,
                       chrome_streams |-> r.vol.fp.chrome_streams,
                       brave_streams |-> r.vol.fp.brave_streams,
                       browser_mic_streams |-> r.mic.browser_mic_streams,
                       matched |-> r.mic.matched]
           /\ window_id' = r.window_id
           /\ browser_windows' = r.browser_windows
           /\ sinkInputs' = SetLevels(sinkInputs, "set-sink-input-volume",
                                      Effective(issued, failing))
           /\ sourceOutputs' = SetLevels(sourceOutputs, "set-source-output-mute",
                                         Effective(issued, failing))
    /\ UNCHANGED <<launched, pid, wm, loopvars, parsevars>>

\* a browser that started slowly shows its window after launch gave up
WindowOpens(i) ==
    /\ launched = NumBrowsers
    /\ wm[i] = "none" /\ pid[i] # NONE /\ window_id[i] = NONE
    /\ wm' = [wm EXCEPT ![i] = "open"]
    /\ Unobserved
    /\ UNCHANGED <<launched, browser_windows, window_id, pid, sinkInputs, sourceOutputs,
                   loopvars, parsevars>>

\* the user closes a browser window
WindowCloses(i) ==
    /\ launched = NumBrowsers
    /\ wm[i] # "none"
    /\ Cardinality(Troubled(window_id, wm, NumBrowsers) \ {i}) < MaxTroubled
    /\ wm' = [wm EXCEPT ![i] = "none"]
    /\ Unobserved
    /\ UNCHANGED <<launched, browser_windows, window_id, pid, sinkInputs, sourceOutputs,
                   loopvars, parsevars>>

\* an application opens a playback stream
SinkInputStarts(k, pr) ==
    /\ launched = NumBrowsers
    /\ SinkId(k) \notin Ids(sinkInputs)
    /\ sinkInputs' = InsertStream(sinkInputs, Stream(SinkId(k), pr))
    /\ Unobserved
    /\ UNCHANGED <<launched, browser_windows, window_id, pid, wm, sourceOutputs,
                   loopvars, parsevars>>

SinkInputEnds(k) ==
    /\ k \in 1..Len(sinkInputs)
    /\ sinkInputs' = RemoveAt(sinkInputs, k)
    /\ Unobserved
    /\ UNCHANGED <<launched, browser_windows, window_id, pid, wm, sourceOutputs,
                   loopvars, parsevars>>

\* an application opens a capture stream
SourceOutputStarts(k, pr) ==
    /\ launched = NumBrowsers
    /\ SourceId(k) \notin Ids(sourceOutputs)
    /\ sourceOutputs' = InsertStream(sourceOutputs, Stream(SourceId(k), pr))
    /\ Unobserved
    /\ UNCHANGED <<launched, browser_windows, window_id, pid, wm, sinkInputs,
                   loopvars, parsevars>>

SourceOutputEnds(k) ==
    /\ k \in 1..Len(sourceOutputs)
    /\ sourceOutputs' = RemoveAt(sourceOutputs, k)
    /\ Unobserved
    /\ UNCHANGED <<launched, browser_windows, window_id, pid, wm, sinkInputs,
                   loopvars, parsevars>>

ActivateAny == \E n \in ActivateArgs : Activate(n)
WindowOpensAny == \E i \in Idx : WindowOpens(i)
WindowClosesAny == \E i \in Idx : WindowCloses(i)
SinkInputStartsAny == \E k \in 1..MaxSinkInputs, pr \in SinkProfiles : SinkInputStarts(k, pr)
SinkInputEndsAny == \E k \in 1..MaxSinkInputs : SinkInputEnds(k)
SourceOutputStartsAny ==
    \E k \in 1..MaxSourceOutputs, pr \in SourceProfiles : SourceOutputStarts(k, pr)
SourceOutputEndsAny == \E k \in 1..MaxSourceOutputs : SourceOutputEnds(k)

Next ==
    \/ Launch
    \/ ActivateAny
    \/ WindowOpensAny
    \/ WindowClosesAny
    \/ SinkInputStartsAny
    \/ SinkInputEndsAny
    \/ SourceOutputStartsAny
    \/ SourceOutputEndsAny

Spec == Init /\ [][Next]_vars


-----------------------------------------------------------------------------
(* The attribution on its own: the registry, the windows and the streams    *)
(* are drawn from the states construction and the environment can produce,  *)
(* and only activations follow.                                             *)

\* a browser after construction: [window_id, pid, wm]
Statuses(i) ==
    { [window_id |-> WinId(i), pid |-> ProcPid(i), wm |-> "titled"],  \* found by launch
      [window_id |-> NONE, pid |-> ProcPid(i), wm |-> "none"],        \* no window yet
      [window_id |-> NONE, pid |-> ProcPid(i), wm |-> "open"],        \* window came late
      [window_id |-> WinId(i), pid |-> ProcPid(i), wm |-> "none"] }   \* window closed

\* the inventories of the other direction that go with an inventory under study:
\* none, or one stream that is attributed by its brand
PlainSinks == {<<Profile("Google Chrome", NONE, NONE)>>}
PlainSources == {<<>>, <<Profile("Chromium input", NONE, NONE)>>}

RECURSIVE SeqsUpTo(_, _)
\* the sequences over S of length at most n
SeqsUpTo(S, n) ==
    IF n = 0 THEN {<<>>}
    ELSE LET shorter == SeqsUpTo(S, n - 1)
         IN  shorter \cup {Append(q, x) : q \in shorter, x \in S}

\* the streams of the given profiles, playback ("sink") or capture
Inventory(prs, kind) ==
    [k \in 1..Len(prs) |-> Stream(IF kind = "sink" THEN SinkId(k) ELSE SourceId(k), prs[k])]

InitAttr ==
    /\ launched = NumBrowsers
    /\ \E st \in [Idx -> UNION {Statuses(i) : i \in Idx}] :
         /\ \A i \in Idx : st[i] \in Statuses(i)
         /\ window_id = [i \in Idx |-> st[i].window_id]
         /\ browser_windows = window_id
         /\ pid = [i \in Idx |-> st[i].pid]
         /\ wm = [i \in Idx |-> st[i].wm]
    /\ Cardinality(Troubled(window_id, wm, NumBrowsers)) <= MaxTroubled
    /\ \E sinks \in SeqsUpTo(SinkProfiles, AttrSinkInputs),
          sources \in SeqsUpTo(SourceProfiles, AttrSourceOutputs) :
         /\ sinks \in PlainSinks \/ sources \in PlainSources
         /\ sinkInputs = Inventory(sinks, "sink")
         /\ sourceOutputs = Inventory(sources, "source")
    /\ num = NONE /\ ret = NONE /\ focused = NONE /\ calls = <<>>
    /\ heard = <<>> /\ heard_mic = <<>> /\ attr = NoAttr
    /\ LoopIdle /\ NoText

NextAttr == ActivateAny

SpecAttr == InitAttr /\ [][NextAttr]_vars


-----------------------------------------------------------------------------
(* The fixed inventory: each browser plays one stream and records one, and  *)
(* each stream carries its own browser's brand and nothing else.  The       *)
(* windows come and go; the streams stay.                                   *)

Brands == <<Profile("Vivaldi", NONE, NONE), Profile("Google Chrome", NONE, NONE),
            Profile("Brave", NONE, NONE)>>

InitFixed ==
    /\ launched = 0
    /\ browser_windows = <<NONE, NONE, NONE>>
    /\ window_id = <<NONE, NONE, NONE>>
    /\ pid = <<NONE, NONE, NONE>>
    /\ wm = <<"none", "none", "none">>
    /\ sinkInputs = Inventory(Brands, "sink")
    /\ sourceOutputs = Inventory(Brands, "source")
    /\ num = NONE /\ ret = NONE /\ focused = NONE /\ calls = <<>>
    /\ heard = <<>> /\ heard_mic = <<>> /\ attr = NoAttr
    /\ LoopIdle /\ NoText

NextFixed ==
    \/ Launch
    \/ ActivateAny
    \/ WindowOpensAny
    \/ WindowClosesAny

SpecFixed == InitFixed /\ [][NextFixed]_vars

-----------------------------------------------------------------------------
(* Failing commands: the registry, the windows and the streams are drawn as *)
(* for the attribution on its own, and in any activation some of the volume *)
(* and mute commands can fail.                                              *)

\* the playback streams: a brand of the active or of another browser, the
\* engine's name with the pid of browser 1's process, another application
FailingSinkProfiles ==
    { Profile("Vivaldi", NONE, NONE), Profile("Google Chrome", NONE, NONE),
      Profile("Chromium", NONE, "100"), Profile("Firefox", "firefox", NONE) }

\* the capture inventories: none, one stream, two streams
FailingSources ==
    { <<>>, <<Profile("Chromium input", NONE, NONE)>>,
      <<Profile("Vivaldi", NONE, NONE), Profile("Brave", NONE, NONE)>> }

InitFail ==
    /\ launched = NumBrowsers
    /\ \E st \in [Idx -> UNION {Statuses(i) : i \in Idx}] :
         /\ \A i \in Idx : st[i] \in Statuses(i)
         /\ window_id = [i \in Idx |-> st[i].window_id]
         /\ browser_windows = window_id
         /\ pid = [i \in Idx |-> st[i].pid]
         /\ wm = [i \in Idx |-> st[i].wm]
    /\ Cardinality(Troubled(window_id, wm, NumBrowsers)) <= MaxTroubled
    /\ \E sinks \in SeqsUpTo(FailingSinkProfiles, AttrSinkInputs),
          sources \in FailingSources :
         /\ sinkInputs = Inventory(sinks, "sink")
         /\ sourceOutputs = Inventory(sources, "source")
    /\ num = NONE /\ ret = NONE /\ focused = NONE /\ calls = <<>>
    /\ heard = <<>> /\ heard_mic = <<>> /\ attr = NoAttr
    /\ LoopIdle /\ NoText

ActivateFailingAny == \E n \in Idx : ActivateFailing(n)

NextFail ==
    \/ ActivateAny
    \/ ActivateFailingAny

SpecFail == InitFail /\ [][NextFail]_vars


-----------------------------------------------------------------------------
(* The GTK main loop.  A click on a browser button queues the closure       *)
(* activate_and_update with GLib.idle_add; the refresh timer is a source of *)
(* the same loop.  The loop runs one callback at a time, and a callback     *)
(* issues its external commands one after the other.                        *)

\* the variables of the switcher
switcher == <<launched, browser_windows, window_id, pid, wm, sinkInputs, sourceOutputs,
              num, ret, focused, calls, heard, heard_mic, attr>>

registry == <<launched, browser_windows, window_id, pid, wm>>

observed == <<num, ret, focused, calls, heard, heard_mic, attr>>

\* UI.refresh_audio_info (lines 965-972): it lists the playback streams
refresh_audio_info == <<Cmd("pactl list sink-inputs", "", "")>>

\* activate_and_update (lines 993-997): activate, then refresh_audio_info unless
\* activate raised
activate_and_update(r) ==
    r.calls \o (IF r.ret = "raised" THEN <<>> ELSE refresh_audio_info)

\* the registry is as construction can leave it; two streams play, one of them
\* under the engine's name, and one records
InitLoop ==
    /\ launched = NumBrowsers
    /\ \E st \in [Idx -> UNION {Statuses(i) : i \in Idx}] :
         /\ \A i \in Idx : st[i] \in Statuses(i)
         /\ window_id = [i \in Idx |-> st[i].window_id]
         /\ browser_windows = window_id
         /\ pid = [i \in Idx |-> st[i].pid]
         /\ wm = [i \in Idx |-> st[i].wm]
    /\ Cardinality(Troubled(window_id, wm, NumBrowsers)) <= MaxTroubled
    /\ sinkInputs = Inventory(<<Profile("Vivaldi", NONE, NONE),
                                Profile("Chromium", NONE, NONE)>>, "sink")
    /\ sourceOutputs = Inventory(<<Profile("Chromium input", NONE, NONE)>>, "source")
    /\ num = NONE /\ ret = NONE /\ focused = NONE /\ calls = <<>>
    /\ heard = <<>> /\ heard_mic = <<>> /\ attr = NoAttr
    /\ LoopIdle /\ NoText

\* UI.on_browser_button_clicked (lines 988-1000), itself a callback of the loop:
\* the request is queued behind those already waiting
Click(n) ==
    /\ running = <<>>
    /\ clicked < MaxClicks
    /\ clicked' = clicked + 1
    /\ idle' = Append(idle, [req |-> clicked + 1, n |-> n])
    /\ UNCHANGED <<switcher, running, log, ticks, parsevars>>

\* the timer of line 963 expires and the loop calls refresh_audio_info
TimerExpires ==
    /\ running = <<>>
    /\ ticks < MaxTicks
    /\ ticks' = ticks + 1
    /\ running' = <<[req |-> 0, n |-> 0, todo |-> refresh_audio_info, r |-> [ret |-> NONE]]>>
    /\ UNCHANGED <<switcher, idle, log, clicked, parsevars>>

\* fault: activate_and_update started in a thread of its own instead of being
\* left to the main loop
RunIdle_threaded ==
    /\ idle # <<>>
    /\ \E r \in {activate(Head(idle).n, window_id, pid, browser_windows, wm,
                           sinkInputs, sourceOutputs)} :
           running' = Append(running, [req |-> Head(idle).req, n |-> Head(idle).n,
                                       todo |-> activate_and_update(r), r |-> r])
    /\ idle' = Tail(idle)
    /\ UNCHANGED <<switcher, log, clicked, ticks, parsevars>>

\* the loop, with no callback running, takes the oldest idle callback and
\* calls it (line 1000, GLib.idle_add)
RunIdle ==
    /\ running = <<>>
    /\ idle # <<>>
    /\ \E r \in {activate(Head(idle).n, window_id, pid, browser_windows, wm,
                           sinkInputs, sourceOutputs)} :
           running' = <<[req |-> Head(idle).req, n |-> Head(idle).n,
                         todo |-> activate_and_update(r), r |-> r]>>
    /\ idle' = Tail(idle)
    /\ UNCHANGED <<switcher, log, clicked, ticks, parsevars>>

\* a running callback issues its next external command
Issue(k) ==
    /\ k \in 1..Len(running)
    /\ running[k].todo # <<>>
    /\ log' = Append(log, [req |-> running[k].req, cmd |-> Head(running[k].todo)])
    /\ sinkInputs' = SetLevels(sinkInputs, "set-sink-input-volume",
                               <<Head(running[k].todo)>>)
    /\ sourceOutputs' = SetLevels(sourceOutputs, "set-source-output-mute",
                                  <<Head(running[k].todo)>>)
    /\ running' = [running EXCEPT ![k].todo = Tail(@)]
    /\ UNCHANGED <<registry, observed, idle, clicked, ticks, parsevars>>

\* activate_and_update returns to the loop
ActivateReturns(k) ==
    /\ k \in 1..Len(running)
    /\ running[k].todo = <<>> /\ running[k].n \in Idx
    /\ \E r \in {running[k].r} :
           /\ num' = ToString(running[k].n)
           /\ ret' = r.ret
           /\ focused' = r.focused
           /\ calls' = r.calls
           /\ heard' = r.streams
           /\ heard_mic' = r.mic_streams
           /\ attr' = [vivaldi_streams |-> r.vol.fp.vivaldi_streams,
                       chrome_streams |-> r.vol.fp.chrome_streams,
                       brave_streams |-> r.vol.fp.brave_streams,
                       browser_mic_streams |-> r.mic.browser_mic_streams,
                       matched |-> r.mic.matched]
           /\ window_id' = r.window_id
           /\ browser_windows' = r.browser_windows
    /\ running' = RemoveAt(running, k)
    /\ UNCHANGED <<launched, pid, wm, sinkInputs, sourceOutputs, idle, log, clicked,
                   ticks, parsevars>>

\* refresh_audio_info, called by the timer, returns to the loop
RefreshReturns(k) ==
    /\ k \in 1..Len(running)
    /\ running[k].todo = <<>> /\ running[k].n = 0
    /\ running' = RemoveAt(running, k)
    /\ UNCHANGED <<switcher, idle, log, clicked, ticks, parsevars>>

ClickAny == \E n \in Idx : Click(n)
IssueAny == \E k \in 1..MaxClicks : Issue(k)
ActivateReturnsAny == \E k \in 1..MaxClicks : ActivateReturns(k)
RefreshReturnsAny == \E k \in 1..MaxClicks : RefreshReturns(k)

NextLoop ==
    \/ ClickAny
    \/ TimerExpires
    \/ RunIdle
    \/ IssueAny
    \/ ActivateReturnsAny
    \/ RefreshReturnsAny

SpecLoop == InitLoop /\ [][NextLoop]_vars


-----------------------------------------------------------------------------
(* The parsers on their own: a dump is drawn, then the parser of its kind   *)
(* runs on it.  A dump is some property lines, which belong to no stream,   *)
(* and then header blocks; a block holds each property line once or not at  *)
(* all, and a property line can hold a value its pattern does not match.    *)

NameLines == {<<>>} \cup {<<Line("application.name", v)>> : v \in {"Vivaldi", "Chromium"}}

\* "<None>" is not a number: PAT_APP_PID does not match the line
PidLines == {<<>>} \cup {<<Line("application.process.id", v)>> : v \in {"100", NONE}}

\* "firefox" holds no "/": PAT_APP_PROCESS does not match the line
BinaryLines ==
    {<<>>} \cup {<<Line("application.process.binary", v)>> :
                    v \in {"/opt/vivaldi/vivaldi-bin", "firefox"}}

\* the blocks a header can open
Blocks(header, id) ==
    {<<Line(header, id), Line("media.name", "Playback")>> \o n \o p \o b :
        n \in NameLines, p \in PidLines, b \in BinaryLines}

\* what a dump can hold before its first header
Preambles == {<<>>, <<Line("application.name", "Firefox")>>,
              <<Line("application.process.id", "300")>>}

RECURSIVE DumpsOf(_, _)
\* the dumps of n blocks, playback ("sink") or capture
DumpsOf(kind, n) ==
    IF n = 0 THEN Preambles
    ELSE {d \o b : d \in DumpsOf(kind, n - 1),
                   b \in Blocks(IF kind = "sink" THEN "Sink Input #" ELSE "Source Output #",
                                IF kind = "sink" THEN SinkId(n) ELSE SourceId(n))}

InitParse ==
    /\ launched = 0
    /\ browser_windows = <<NONE, NONE, NONE>>
    /\ window_id = <<NONE, NONE, NONE>>
    /\ pid = <<NONE, NONE, NONE>>
    /\ wm = <<"none", "none", "none">>
    /\ sinkInputs = <<>>
    /\ sourceOutputs = <<>>
    /\ num = NONE /\ ret = NONE /\ focused = NONE /\ calls = <<>>
    /\ heard = <<>> /\ heard_mic = <<>> /\ attr = NoAttr
    /\ LoopIdle
    /\ \E kind \in {"sink", "source"}, n \in 0..MaxBlocks : output \in DumpsOf(kind, n)
    /\ parsed = [by |-> NONE, streams |-> <<>>]

\* list_audio_streams() runs on a dump of the playback streams
ListAudioStreams ==
    /\ parsed.by = NONE
    /\ \A i \in 1..Len(output) : output[i].key # "Source Output #"
    /\ parsed' = [by |-> "list_audio_streams", streams |-> list_audio_streams(output)]
    /\ UNCHANGED <<switcher, loopvars, output>>

\* list_microphone_streams() runs on a dump of the capture streams
ListMicrophoneStreams ==
    /\ parsed.by = NONE
    /\ \A i \in 1..Len(output) : output[i].key # "Sink Input #"
    /\ parsed' = [by |-> "list_microphone_streams",
                  streams |-> list_microphone_streams(output)]
    /\ UNCHANGED <<switcher, loopvars, output>>

NextParse ==
    \/ ListAudioStreams
    \/ ListMicrophoneStreams

SpecParse == InitParse /\ [][NextParse]_vars


-----------------------------------------------------------------------------
(* Properties. *)

ValidNums == {ToString(n) : n \in Idx}

\* the browser number the last activation was called with
Active == CHOOSE n \in Idx : ToString(n) = num

Percent(p) == ToString(p) \o "%"

\* the argument of the last command cmd issued on stream id, NONE if there is none
LastArg(cs, cmd, id) ==
    LET ks == {k \in 1..Len(cs) : cs[k].cmd = cmd /\ cs[k].id = id}
    IN  IF ks = {} THEN NONE
        ELSE cs[CHOOSE k \in ks : \A j \in ks : j <= k].arg

LastVol(st) == LastArg(calls, "set-sink-input-volume", Get(st, "id"))
LastMute(st) == LastArg(calls, "set-source-output-mute", Get(st, "id"))

\* the stream's name or binary holds a token of browser m's alias set
HasAlias(st, m) ==
    AnyName(browser_names[m], lower(Get(st, "app_name")), lower(Get(st, "binary")))

\* the stream's name or binary holds the token
HasToken(st, tok) ==
    In(tok, lower(Get(st, "app_name"))) \/ In(tok, lower(Get(st, "binary")))

\* the process id of the active browser's window, NONE when there is none
ActivePid ==
    IF Truthy(browser_windows[Active]) THEN get_window_pid(wm, browser_windows[Active])
    ELSE NONE

\* no brand token, no engine name, and not the process of the active window
Unrecognized(st) ==
    /\ \A m \in Idx : ~HasAlias(st, m)
    /\ Get(st, "pid") # ActivePid

\* the browser whose playback list holds the stream, NONE if no list does
ClassifiedTo(st) ==
    IF Member(Get(st, "id"), attr.vivaldi_streams) THEN "1"
    ELSE IF Member(Get(st, "id"), attr.chrome_streams) THEN "2"
    ELSE IF Member(Get(st, "id"), attr.brave_streams) THEN "3"
    ELSE NONE

\* C1: with the fixed inventory, after an activation of browser n the volume
\* last set on browser n's playback stream is 100% and its capture stream is
\* unmuted, the other browsers' playback streams are at 30% and their capture
\* streams are muted.
C1_ActiveLoudOthersQuiet ==
    num \in ValidNums =>
        \A k \in Idx :
            /\ sinkInputs[k].level = IF ToString(k) = num THEN Percent(ACTIVE_VOL)
                                     ELSE Percent(INACTIVE_VOL)
            /\ sourceOutputs[k].level = IF ToString(k) = num THEN "0" ELSE "1"

\* browser 3 was activated after browser 1, with browser 3's window never found
C1_Witness ==
    /\ num = "3" /\ ret = "True" /\ browser_windows[3] = NONE
    /\ sinkInputs[3].level = Percent(ACTIVE_VOL) /\ sinkInputs[1].level = Percent(INACTIVE_VOL)
    /\ sourceOutputs[3].level = "0" /\ sourceOutputs[1].level = "1"


\* C2: activate(n) for a browser number n returns True exactly when the
\* playback inventory it fetched is non-empty, whatever focus returned.
C2_TrueIffInventory ==
    num \in ValidNums => (ret = "True" <=> sinkInputs # <<>>)

\* C3: activate(num) with num outside 1..3 returns False at once: no focus, no
\* inventory fetch, no volume or mute command, and the registry is unchanged.
C3_InvalidNumIsNoOp ==
    [][num' \in {ToString(n) : n \in ActivateArgs \ Idx}
       => /\ ret' = "False" /\ focused' = NONE /\ calls' = <<>>
          /\ heard' = <<>> /\ heard_mic' = <<>>
          /\ UNCHANGED <<browser_windows, window_id, pid, wm, sinkInputs,
                         sourceOutputs>>]_vars

\* activate(4) was called with a stream playing and a window of browser 1 that
\* focus would have found
C3_Witness ==
    /\ num = "4" /\ ret = "False" /\ calls = <<>>
    /\ sinkInputs # <<>> /\ sourceOutputs # <<>>
    /\ wm[1] = "open" /\ window_id[1] = NONE

\* C4: attribution never raises for lack of window-manager data: activate
\* always returns a boolean.
C4_AlwaysBoolean ==
    num # NONE => ret \in {"True", "False"}

\* C5: a playback stream without brand token or engine name whose process is
\* not that of the active window receives no volume command during activate(n).
C5_UnmanagedUntouched ==
    num \in ValidNums =>
        \A k \in 1..Len(heard) : Unrecognized(heard[k]) => LastVol(heard[k]) = NONE

\* the active browser's window id is known and the first pass classified a
\* stream (a stream of browser 1 when browser 1 is active)
FirstPassDecided ==
    /\ Truthy(browser_windows[Active])
    /\ attr.vivaldi_streams \o attr.chrome_streams \o attr.brave_streams # <<>>
    /\ Active = 1 => attr.vivaldi_streams # <<>>

\* C5 as amended: such a stream receives no volume command during activate(n)
\* when the active browser's window id is known and the first pass classified
\* at least one stream of the inventory (to browser 1 when n = 1).
C5_Amended ==
    (num \in ValidNums /\ FirstPassDecided) =>
        \A k \in 1..Len(heard) : Unrecognized(heard[k]) => LastVol(heard[k]) = NONE

\* browser 3 is active with a stream of its own, and another application's
\* stream keeps the volume it had
C5_Witness ==
    /\ num = "3" /\ FirstPassDecided /\ attr.brave_streams # <<>>
    /\ \E k \in 1..Len(heard) :
           /\ Unrecognized(heard[k]) /\ Get(heard[k], "app_name") = "Firefox"
           /\ LastVol(heard[k]) = NONE /\ sinkInputs[k].level = "default"

\* C6: a capture stream without brand token or engine name whose process is
\* not that of the active window receives no mute command during activate(n).
C6_UnmanagedCaptureUntouched ==
    num \in ValidNums =>
        \A k \in 1..Len(heard_mic) :
            Unrecognized(heard_mic[k]) => LastMute(heard_mic[k]) = NONE

\* another application records while browser 2 is active and a browser's
\* capture stream is muted
C6_Witness ==
    /\ num = "2" /\ Len(heard_mic) = 2
    /\ \E k \in 1..Len(heard_mic) :
           /\ Unrecognized(heard_mic[k]) /\ Get(heard_mic[k], "pid") = "300"
           /\ sourceOutputs[k].level = "default"
    /\ \E k \in 1..Len(heard_mic) : LastMute(heard_mic[k]) = "1"

\* the stream holds a token of browser n's alias set and of no other's
OnlyAliasOf(st, n) == HasAlias(st, n) /\ \A m \in Idx \ {n} : ~HasAlias(st, m)

Brand == <<"vivaldi", "chrome", "brave">>

C8_OtherBrandQuiet ==
    num \in ValidNums =>
        \A k \in 1..Len(heard) :
            ClassifiedTo(heard[k]) \notin {NONE, num} =>
                LastVol(heard[k]) = Percent(INACTIVE_VOL)

\* C8 as amended: such a stream has 30% as its last volume command in
\* activate(n), provided that, when n = 1, the first pass classified a stream
\* to browser 1 and, when n = 2, the stream's application name does not hold
\* "google chrome".
C8_Amended ==
    num \in ValidNums =>
        \A k \in 1..Len(heard) :
            (/\ ClassifiedTo(heard[k]) \notin {NONE, num}
             /\ Active = 1 => attr.vivaldi_streams # <<>>
             /\ Active = 2 => ~In("google chrome", lower(Get(heard[k], "app_name"))))
            => LastVol(heard[k]) = Percent(INACTIVE_VOL)

\* browser 1 is active with a stream of its own; a stream named Chromium was
\* classified to browser 2 and stays at 30%
C8_Witness ==
    /\ num = "1" /\ attr.vivaldi_streams # <<>>
    /\ \E k \in 1..Len(heard) :
           /\ Get(heard[k], "app_name") = "Chromium" /\ ClassifiedTo(heard[k]) = "2"
           /\ sinkInputs[k].level = Percent(INACTIVE_VOL)

\* the per-browser lists of one attribution
PlaybackLists == <<attr.vivaldi_streams, attr.chrome_streams, attr.brave_streams>>

\* C9: within one activation no stream is in two per-browser lists: not in two
\* of the playback lists, not in two of browser_mic_streams.
C9_OneListPerStream ==
    /\ \A i, j \in Idx : \A k \in 1..Len(PlaybackLists[i]) :
           i # j => ~Member(PlaybackLists[i][k], PlaybackLists[j])
    /\ \A i, j \in Idx : \A k \in 1..Len(attr.browser_mic_streams[i]) :
           i # j => ~Member(attr.browser_mic_streams[i][k], attr.browser_mic_streams[j])

\* the volume and mute commands among calls
AudioCommands(cs) ==
    SelectSeq(cs, LAMBDA c : c.cmd \in {"set-sink-input-volume", "set-source-output-mute"})

\* C10: activate(n) called again with the window directory and the
\* inventories unchanged issues the same volume and mute commands, leaves the
\* same levels, attributes the streams alike and ends the same way.
C10_Idempotent ==
    [][(num \in ValidNums /\ num' = num)
       => /\ ret' = ret
          /\ AudioCommands(calls') = AudioCommands(calls)
          /\ sinkInputs' = sinkInputs /\ sourceOutputs' = sourceOutputs
          /\ attr' = attr
          /\ browser_windows' = browser_windows /\ window_id' = window_id]_vars

\* browser 1 was activated and focus found the window launch had missed
C10_Witness ==
    /\ num = "1" /\ ret = "True" /\ wm[1] = "open" /\ window_id[1] = WinId(1)
    /\ AudioCommands(calls) # <<>>


\* the tokens that name one browser only
BrandTokens == {"vivaldi", "vivaldimail", "chrome", "google chrome", "brave", "brave-browser"}

\* the stream goes by the engine's name and carries no token of a brand
GenericEngine(st) ==
    /\ In("chromium", lower(Get(st, "app_name")))
    /\ \A tok \in BrandTokens : ~HasToken(st, tok)

\* C11: a playback stream named after the engine, without brand token, whose
\* process id is that of the active browser's window is classified to the
\* active browser and has 100% as its last volume command in activate(n).
C11_PidMatchToActive ==
    num \in ValidNums =>
        \A k \in 1..Len(heard) :
            (/\ GenericEngine(heard[k]) /\ Truthy(ActivePid)
             /\ Get(heard[k], "pid") = ActivePid)
            => /\ ClassifiedTo(heard[k]) = num
               /\ LastVol(heard[k]) = Percent(ACTIVE_VOL)

\* the arguments of the volume commands issued on the stream, in order
VolArgs(st) ==
    LET cs == SelectSeq(calls, LAMBDA c : c.cmd = "set-sink-input-volume"
                                          /\ c.id = Get(st, "id"))
    IN  [k \in 1..Len(cs) |-> cs[k].arg]

\* the streams of the last inventory named after the engine, without brand
\* token and without process id
GenericNoPid == {k \in 1..Len(heard) : GenericEngine(heard[k]) /\ "pid" \notin DOMAIN heard[k]}

\* C12: when the inventory holds two or more engine-named streams without
\* process id and browser 2 is activated, at most one of them is classified to
\* browser 2 and the others are in no list and receive no volume command.
C12_AtMostOneGeneric ==
    (num = "2" /\ Cardinality(GenericNoPid) >= 2) =>
        Cardinality({k \in GenericNoPid : \/ ClassifiedTo(heard[k]) # NONE
                                          \/ LastVol(heard[k]) # NONE}) <= 1

\* C12 as amended: when browser 2 is activated the engine-named streams
\* without process id are treated alike: each receives the same volume
\* commands as the others, the last of them 30%, and each is classified to
\* browser 2 when browser 2's window id is known.
C12_Amended ==
    num = "2" =>
        \A j, k \in GenericNoPid :
            /\ VolArgs(heard[j]) = VolArgs(heard[k])
            /\ LastVol(heard[k]) = Percent(INACTIVE_VOL)
            /\ Truthy(browser_windows[2]) => ClassifiedTo(heard[k]) = "2"

\* browser 2 is active with its window known and two streams named Chromium:
\* both are in its list and both end at 30%
C12_Witness ==
    /\ num = "2" /\ ret = "True" /\ Truthy(browser_windows[2])
    /\ Cardinality(GenericNoPid) = 2
    /\ \A k \in GenericNoPid :
           /\ ClassifiedTo(heard[k]) = "2"
           /\ VolArgs(heard[k]) = <<Percent(ACTIVE_VOL), Percent(INACTIVE_VOL)>>
           /\ sinkInputs[k].level = Percent(INACTIVE_VOL)


\* the last activation listed the capture streams
CaptureFetched == \E k \in 1..Len(calls) : calls[k].cmd = "pactl list source-outputs"

\* C13: when activate(n) fetched a non-empty playback inventory and then an
\* empty capture inventory, it returns True and issues no mute or unmute
\* command.
C13_EmptyCaptureSkipped ==
    (num \in ValidNums /\ heard # <<>> /\ CaptureFetched /\ heard_mic = <<>>)
    => /\ ret = "True"
       /\ \A k \in 1..Len(calls) : calls[k].cmd # "set-source-output-mute"

\* browser 1 was activated with a stream playing and nothing recording: the
\* volume was set, the capture streams were listed and there was none
C13_Witness ==
    /\ num = "1" /\ ret = "True" /\ heard # <<>> /\ CaptureFetched
    /\ heard_mic = <<>> /\ sourceOutputs = <<>>
    /\ \E k \in 1..Len(calls) : calls[k].cmd = "set-sink-input-volume"


\* the browser adjust_microphone_streams matched the capture stream to, NONE if none
MatchedIdx(st) ==
    IF \E k \in 1..Len(attr.matched) : attr.matched[k][1] = Get(st, "id")
    THEN attr.matched[CHOOSE k \in 1..Len(attr.matched) :
                          attr.matched[k][1] = Get(st, "id")][2]
    ELSE NONE

\* C14: with browser 1 or 3 active, a capture stream named after the engine
\* and without brand token is never attributed to browser 2 (Chrome).
C14_GenericCaptureNotChrome ==
    num \in {"1", "3"} =>
        \A k \in 1..Len(heard_mic) :
            GenericEngine(heard_mic[k]) =>
                /\ ~Member(Get(heard_mic[k], "id"), attr.browser_mic_streams[2])
                /\ MatchedIdx(heard_mic[k]) # "2"

\* C14 as amended: with browser 1 (Vivaldi) active, a capture stream named
\* after the engine and without brand token is attributed to browser 1 and
\* unmuted, and is never attributed to browser 2.
C14_Amended ==
    num = "1" =>
        \A k \in 1..Len(heard_mic) :
            GenericEngine(heard_mic[k]) =>
                /\ Member(Get(heard_mic[k], "id"), attr.browser_mic_streams[1])
                /\ ~Member(Get(heard_mic[k], "id"), attr.browser_mic_streams[2])
                /\ MatchedIdx(heard_mic[k]) = "1"
                /\ LastMute(heard_mic[k]) = "0"

\* browser 1 is active, Chrome's own capture stream is muted and a stream
\* named Chromium that belongs to Chrome's process is unmuted as Vivaldi's
C14_Witness ==
    /\ num = "1" /\ Len(heard_mic) = 2
    /\ \E k \in 1..Len(heard_mic) :
           /\ Get(heard_mic[k], "app_name") = "Google Chrome"
           /\ sourceOutputs[k].level = "1"
    /\ \E k \in 1..Len(heard_mic) :
           /\ GenericEngine(heard_mic[k]) /\ Get(heard_mic[k], "pid") = "200"
           /\ MatchedIdx(heard_mic[k]) = "1" /\ sourceOutputs[k].level = "0"


\* C15: once the three launches are over, no step changes a Browser.window_id
\* or an entry of browser_windows.
C15_RegistryReadOnly ==
    [][launched = NumBrowsers
       => /\ window_id' = window_id
          /\ browser_windows' = browser_windows]_vars

\* C15 as amended: once the three launches are over, activate(n) leaves the
\* entries of the other browsers alone and never changes a process id; it
\* changes browser n's window_id and browser_windows entry only together, only
\* when focusing by the stored id and by the title both failed, and only to the
\* id of a window it found by the browser's process id or, for Brave, by class.
C15_Amended ==
    [][(launched = NumBrowsers /\ num' \in ValidNums)
       => /\ pid' = pid
          /\ \A i \in Idx :
                 \/ /\ window_id'[i] = window_id[i]
                    /\ browser_windows'[i] = browser_windows[i]
                 \/ /\ ToString(i) = num'
                    /\ window_id'[i] = browser_windows'[i]
                    /\ ~focus_window_by_id(wm, window_id[i])
                    /\ ~focus_by_title(wm, Title(i))
                    /\ window_id'[i] \in
                           {find_window_by_pid(wm, pid[i])}
                           \cup (IF IsBrave(i) THEN {find_window_by_class(wm, "Brave")}
                                 ELSE {})]_vars

\* browser 3 was activated after its window opened too late for launch: focus
\* found the window by the process id and recorded it
C15_Witness ==
    /\ num = "3" /\ focused = "True" /\ wm[3] = "open"
    /\ window_id[3] = WinId(3) /\ browser_windows[3] = WinId(3)


\* C19: a capture stream without brand token whose process id is that of the
\* active browser's window is attributed to the active browser and unmuted,
\* also when it is named after the engine.
C19_CapturePidMatch ==
    (num \in ValidNums /\ Truthy(ActivePid)) =>
        \A k \in 1..Len(heard_mic) :
            (/\ \A tok \in BrandTokens : ~HasToken(heard_mic[k], tok)
             /\ Get(heard_mic[k], "pid") = ActivePid)
            => /\ Member(Get(heard_mic[k], "id"), attr.browser_mic_streams[Active])
               /\ LastMute(heard_mic[k]) = "0"


\* the level the first pass sets on a stream it classified
FirstPassLevel(st) ==
    IF ClassifiedTo(st) = num THEN Percent(ACTIVE_VOL) ELSE Percent(INACTIVE_VOL)

\* every volume command issued on the stream carries the first pass's level
OneLevel(st) == \A i \in 1..Len(VolArgs(st)) : VolArgs(st)[i] = FirstPassLevel(st)

\* C20: once the first pass has classified a playback stream and set its
\* volume, no later stage of the same activation issues a volume command with
\* a different level on that stream.
C20_ClassifiedKeepsLevel ==
    num \in ValidNums =>
        \A k \in 1..Len(heard) : ClassifiedTo(heard[k]) # NONE => OneLevel(heard[k])

\* the cases in which the last resort for Vivaldi and the special handling of
\* Browser 2 leave a classified stream's level alone
LaterStagesAgree(st) ==
    /\ Active = 1 => \E j \in 1..Len(heard) : HasToken(heard[j], "vivaldi")
    /\ Active = 2 =>
           /\ ~(/\ In("chromium", lower(Get(st, "app_name")))
                /\ ~In("google chrome", lower(Get(st, "app_name"))))
           /\ In("google chrome", lower(Get(st, "app_name"))) => ClassifiedTo(st) = "2"

\* C20 as amended: no later stage issues a volume command with a different
\* level on a stream the first pass classified, provided that, with browser 1
\* active, some stream of the inventory carries "vivaldi" and, with browser 2
\* active, the stream's application name does not hold "chromium" without
\* "google chrome" and a stream named "google chrome" was classified to
\* browser 2.
C20_Amended ==
    num \in ValidNums =>
        \A k \in 1..Len(heard) :
            (ClassifiedTo(heard[k]) # NONE /\ LaterStagesAgree(heard[k]))
            => OneLevel(heard[k])

\* browser 2 is active: the special handling set Chrome's stream to 100% again
\* and left the stream of Vivaldi at the 30% of the first pass
C20_Witness ==
    /\ num = "2" /\ Len(heard) = 2
    /\ \E k \in 1..Len(heard) :
           /\ ClassifiedTo(heard[k]) = "2"
           /\ VolArgs(heard[k]) = <<Percent(ACTIVE_VOL), Percent(ACTIVE_VOL)>>
    /\ \E k \in 1..Len(heard) :
           /\ ClassifiedTo(heard[k]) = "1"
           /\ VolArgs(heard[k]) = <<Percent(INACTIVE_VOL)>>


\* the lines of the dump that are headers
Headers == {i \in 1..Len(output) : output[i].key \in {"Sink Input #", "Source Output #"}}

\* the line of the j-th header
NthHeader(j) == CHOOSE i \in Headers : Cardinality({h \in Headers : h <= i}) = j

\* the lines of the j-th block: those after its header and before the next
BlockOf(j) ==
    {i \in 1..Len(output) :
        /\ i > NthHeader(j)
        /\ \A h \in Headers : h > NthHeader(j) => i < h}

\* the key line a field of a record comes from
FieldKey == [app_name |-> "application.name", binary |-> "application.process.binary",
             pid |-> "application.process.id"]

\* C18: the parsers return one record per header block, in the order of the
\* dump, each with its header's id, and a record has an app_name, binary or
\* pid field only if the block holds the key line of that field.
C18_OneRecordPerBlock ==
    parsed.by # NONE =>
        /\ Len(parsed.streams) = Cardinality(Headers)
        /\ \A j \in 1..Len(parsed.streams) :
               /\ "id" \in DOMAIN parsed.streams[j]
               /\ parsed.streams[j].id = output[NthHeader(j)].val
               /\ \A f \in DOMAIN FieldKey :
                      f \in DOMAIN parsed.streams[j]
                      => \E i \in BlockOf(j) : output[i].key = FieldKey[f]

\* a playback dump of two blocks was parsed: a name line stands before the
\* first header, the first block names Vivaldi with pid and binary, the
\* second block holds no property the patterns match
C18_Witness ==
    /\ parsed.by = "list_audio_streams" /\ Cardinality(Headers) = 2
    /\ output[1].key = "application.name" /\ output[1].val = "Firefox"
    /\ Len(parsed.streams) = 2
    /\ Get(parsed.streams[1], "app_name") = "Vivaldi"
    /\ Get(parsed.streams[1], "pid") = "100"
    /\ Get(parsed.streams[1], "binary") = "vivaldi-bin"
    /\ DOMAIN parsed.streams[2] = {"id", "media_name"}
    /\ \E i \in BlockOf(2) : output[i].key = "application.process.id"


OfRequests == {i \in 1..Len(log) : log[i].req > 0}

\* C16: activations are serialized: at most one callback runs at a time, the
\* commands of the requests appear in the order the requests were queued, the
\* commands of one request are not interleaved with those of another request
\* or of the refresh timer, and a request's commands begin only when every
\* request queued before it has run to completion.
C16_Serialized ==
    /\ Len(running) <= 1
    /\ \A i, j \in OfRequests : i < j => log[i].req <= log[j].req
    /\ \A i, k \in OfRequests :
           (i < k /\ log[i].req = log[k].req)
           => \A j \in i..k : log[j].req = log[i].req
    /\ \A i \in OfRequests :
           /\ \A q \in 1..Len(idle) : idle[q].req > log[i].req
           /\ \A f \in 1..Len(running) :
                  running[f].req > 0 => running[f].req >= log[i].req

\* browser 1 and then browser 2 were clicked before the loop ran either
\* request, and the timer expired in between: the commands of request 1 were
\* issued, then the timer's, then those of request 2, which ended last
C16_Witness ==
    /\ clicked = 2 /\ ticks = 1 /\ idle = <<>> /\ running = <<>>
    /\ num = "2"
    /\ \E i, j, k \in 1..Len(log) :
           /\ i < j /\ j < k
           /\ log[i].req = 1 /\ log[i].cmd.cmd = "set-sink-input-volume"
           /\ log[j].req = 0
           /\ log[k].req = 2 /\ log[k].cmd.cmd = "set-source-output-mute"

-----------------------------------------------------------------------------

\* C21: when the playback inventory activate(n) fetched is empty, the call
\* issues no volume command and no mute or unmute command and does not list
\* the capture streams, even if some exist: every playback and capture stream
\* keeps the level and the mute state the previous activation left.
C21_EmptyPlaybackTouchesNothing ==
    [][(num' \in ValidNums /\ heard' = <<>>)
       => /\ \A k \in 1..Len(calls') :
                 calls'[k].cmd \notin {"set-sink-input-volume", "set-source-output-mute",
                                      "pactl list source-outputs"}
          /\ heard_mic' = <<>>
          /\ sourceOutputs' = sourceOutputs
          /\ sinkInputs' = sinkInputs]_vars

\* browser 2 was activated after the only playback stream had ended: the
\* capture stream still holds the mute state an earlier activation gave it
C21_Witness ==
    /\ num = "2" /\ ret = "False" /\ heard = <<>> /\ sinkInputs = <<>>
    /\ \E k \in 1..Len(calls) : calls[k].cmd = "pactl list sink-inputs"
    /\ sourceOutputs # <<>>
    /\ \A k \in 1..Len(sourceOutputs) : sourceOutputs[k].level # "default"


\* C22: in every state after construction the window table and the Browser
\* objects agree: for each slot i, browser_windows[i-1] is
\* browsers[i-1].window_id, both unset or both the same window id, across
\* launches and activations.
C22_TableAgreesWithBrowsers ==
    \A i \in Idx : browser_windows[i] = window_id[i]

\* launch recorded the windows of browsers 1 and 2 and missed that of browser
\* 3, which opened late; activate(3) then found it by the process id and
\* recorded it
C22_Witness ==
    /\ launched = NumBrowsers /\ num = "3" /\ focused = "True"
    /\ window_id[1] = WinId(1) /\ window_id[2] = WinId(2)
    /\ wm[3] = "open" /\ window_id[3] = WinId(3)

====
